---- MODULE Spec2Model ----
(***************************************************************************)
(* The rendering pipeline of ratatui: the double-buffered Terminal of      *)
(* src/src/terminal/terminal.rs, the Buffer diff it plays against the      *)
(* Backend, and the placement arithmetic of the inline viewport.           *)
(***************************************************************************)
EXTENDS Integers, Sequences, FiniteSets, TLC

\* ------------------------------------------------------------------ bounds

\* Largest buffer the diff is exercised on (width, height, cell count).
DiffMaxW == 3
DiffMaxH == 2
DiffMaxCells == 4

\* Frames drawn in one run.
MaxFrames == 2

\* Backend operations of one call among which a failure is injected.
MaxOps == 5

\* Ranges of the inline placement's inputs.
InlineMaxHeight == 4
InlineMaxScreen == 5
InlineMaxOffset == 4
InlineMaxRow == 6

\* insert_before: the heights inserted, and the inline viewports, screens and
\* cursor rows it is called on.
InsertMaxHeight == 3
InsertMaxViewport == 2
InsertMaxScreen == 3
InsertMaxRow == 3

\* Construction: the coordinates and sides of the Fixed rectangles.
ConstructMaxCoord == 2

\* CrosstermBackend::draw: the cells of one call and their coordinates.
CrosstermMaxCells == 3
CrosstermMaxX == 2
CrosstermMaxY == 1

\* Masked: the characters of the underlying string.
MaskedMaxLen == 3

\* Sparkline: the sides of the buffer rendered into and the length of the data.
SparkMaxWidth == 3
SparkMaxHeight == 2
SparkMaxData == 3

\* ------------------------------------------------------------ value types

Position(x, y) == [x |-> x, y |-> y]

Size(w, h) == [width |-> w, height |-> h]

Rect(x, y, w, h) == [x |-> x, y |-> y, width |-> w, height |-> h]

ORIGIN == Position(0, 0)

as_size(r) == Size(r.width, r.height)

as_position(r) == Position(r.x, r.y)

rect_from(pos, size) == Rect(pos.x, pos.y, size.width, size.height)

top(r) == r.y

bottom(r) == r.y + r.height

rect_area(r) == r.width * r.height

saturating_sub(a, b) == IF a > b THEN a - b ELSE 0

Min(a, b) == IF a < b THEN a ELSE b

Max(a, b) == IF a > b THEN a ELSE b

\* ------------------------------------------------------------------- Cell

\* symbol, style (colors and modifiers folded into one number) and the skip
\* marker of a wide glyph's continuation column.
Cell(symbol, style, skip) == [symbol |-> symbol, style |-> style, skip |-> skip]

DefaultCell == Cell(" ", 0, FALSE)

CellA == Cell("a", 1, FALSE)

CellWide == Cell("W", 0, FALSE)

SkipCell == Cell("", 0, TRUE)

Cells == {DefaultCell, CellA, CellWide, SkipCell}

\* Display width of a symbol: "W" stands for a double-width glyph.
symbol_width(symbol) == IF symbol = "" THEN 0 ELSE IF symbol = "W" THEN 2 ELSE 1

\* ----------------------------------------------------------------- Buffer

Buffer(area, content) == [area |-> area, content |-> content]

buffer_empty(area) == Buffer(area, [i \in 1..rect_area(area) |-> DefaultCell])

buffer_reset(b) == Buffer(b.area, [i \in 1..Len(b.content) |-> DefaultCell])

\* Index (1-based) of the cell at the absolute position (x, y), 0 outside.
index_of(area, x, y) ==
    IF x >= area.x /\ x < area.x + area.width /\ y >= area.y /\ y < area.y + area.height
    THEN (y - area.y) * area.width + (x - area.x) + 1
    ELSE 0

pos_of_column_major(area, i) ==
    Position(area.x + ((i - 1) \div area.height), area.y + ((i - 1) % area.height))

pos_of(area, i) ==
    Position(area.x + ((i - 1) % area.width), area.y + ((i - 1) \div area.width))

\* Cells inside both areas keep their content, newly exposed cells are default.
buffer_resize(b, area) ==
    Buffer(area,
           [i \in 1..rect_area(area) |->
               LET p == pos_of(area, i)
                   j == index_of(b.area, p.x, p.y)
               IN  IF j = 0 THEN DefaultCell ELSE b.content[j]])

set_string_no_skip(b, x, y, cell) ==
    LET i == index_of(b.area, x, y)
    IN  IF i = 0 \/ x + symbol_width(cell.symbol) > b.area.x + b.area.width THEN b
        ELSE Buffer(b.area, [b.content EXCEPT ![i] = cell])

\* Writes one glyph at (x, y): a glyph that does not fit before the right edge is
\* dropped; a double-width glyph marks the next column as its skip cell.
set_string(b, x, y, cell) ==
    LET i == index_of(b.area, x, y)
        w == symbol_width(cell.symbol)
    IN  IF i = 0 \/ x + w > b.area.x + b.area.width THEN b
        ELSE Buffer(b.area,
                    [k \in 1..Len(b.content) |->
                        IF k = i THEN cell
                        ELSE IF w = 2 /\ k = i + 1 THEN SkipCell
                        ELSE b.content[k]])

Update(x, y, cell) == [x |-> x, y |-> y, cell |-> cell]

RECURSIVE diff_from(_, _, _, _, _)
diff_from(self, other, i, invalidated, to_skip) ==
    IF i > Len(self.content) \/ i > Len(other.content) THEN <<>>
    ELSE LET current == other.content[i]
             previous == self.content[i]
             p == pos_of(self.area, i)
             emit == ~current.skip
                     /\ (current # previous \/ invalidated > 0)
                     /\ to_skip = 0
             affected_width == Max(symbol_width(current.symbol),
                                   symbol_width(previous.symbol))
         IN  (IF emit THEN <<Update(p.x, p.y, current)>> ELSE <<>>)
             \o diff_from(self, other, i + 1,
                          saturating_sub(Max(affected_width, invalidated), 1),
                          saturating_sub(symbol_width(current.symbol), 1))

diff_all(self, other) ==
    LET emitted == {i \in 1..Len(other.content) : ~other.content[i].skip}
        RECURSIVE collect(_)
        collect(i) ==
            IF i > Len(other.content) THEN <<>>
            ELSE (IF i \in emitted
                  THEN <<Update(pos_of(self.area, i).x, pos_of(self.area, i).y,
                                other.content[i])>>
                  ELSE <<>>) \o collect(i + 1)
    IN  collect(1)

diff_from_second(self, other) == diff_from(self, other, 2, 0, 0)

diff_invalidated_at_start(self, other) == diff_from(self, other, 1, 1, 0)

\* self.diff(other): the updates that turn what `self` shows into `other`.
diff(self, other) == diff_from(self, other, 1, 0, 0)

\* Plays a change list onto a buffer, cell by cell.
RECURSIVE apply_updates(_, _)
apply_updates(b, updates) ==
    IF updates = <<>> THEN b
    ELSE LET u == Head(updates)
             i == index_of(b.area, u.x, u.y)
         IN  apply_updates(
                 IF i = 0 THEN b ELSE Buffer(b.area, [b.content EXCEPT ![i] = u.cell]),
                 Tail(updates))

\* ---------------------------------------------------------------- Backend

\* One entry of a call's trace: a backend operation with its arguments and
\* whether it succeeded, or one of the terminal's own steps.
Op(name) ==
    [op |-> name, ok |-> TRUE, updates |-> <<>>, pos |-> <<>>, n |-> 0,
     size |-> <<>>, writes |-> "", locals |-> <<>>]

OpDraw(updates) == [Op("draw") EXCEPT !.updates = updates]

OpPos(name, pos) == [Op(name) EXCEPT !.pos = <<pos>>]

OpN(name, n) == [Op(name) EXCEPT !.n = n]

\* backend.size() and the size it answers.
OpSize(size) == [Op("size") EXCEPT !.size = <<size>>]

\* The run of the render callback: what it wrote, the cursor position it asked
\* for and whether it returned Ok.
OpRender(render) ==
    [Op("render_callback") EXCEPT
        !.ok = render.ok, !.writes = render.writes, !.pos = render.cursor_position]

BackendOps ==
    {"draw", "hide_cursor", "show_cursor", "get_cursor_position", "set_cursor_position",
     "clear_region", "append_lines", "size", "flush"}

\* The handle a call holds on the backend: the operations issued so far, which of
\* them (by number, 0 for none) the transport fails, and the error that ended it.
backend_new(fail) == [trace |-> <<>>, nops |-> 0, fail |-> fail, err |-> "none"]

\* `self.backend.op(..)?`: the operation is issued once; on failure the error is
\* kept and everything after it in the call is skipped.
backend_call(t, op) ==
    IF t.err # "none" THEN t
    ELSE LET failed == (t.nops + 1 = t.fail)
         IN  [t EXCEPT !.trace = Append(@, [op EXCEPT !.ok = ~failed]),
                       !.nops = @ + 1,
                       !.err = IF failed THEN "io" ELSE "none"]

\* A step of the terminal itself, recorded between the backend operations.
step(t, name) == [t EXCEPT !.trace = Append(@, Op(name))]

\* One pass through the loop of insert_before, with its local variables as
\* the pass found and computed them.
OpLoop(locals) == [Op("loop") EXCEPT !.locals = <<locals>>]

\* The run of the draw_fn closure of insert_before on a buffer of the given
\* height.
OpDrawFn(height, writes) == [Op("draw_fn") EXCEPT !.n = height, !.writes = writes]

\* --------------------------------------------------------------- Viewport

Fullscreen == [kind |-> "Fullscreen", height |-> 0, area |-> Rect(0, 0, 0, 0)]

Inline(height) == [kind |-> "Inline", height |-> height, area |-> Rect(0, 0, 0, 0)]

Fixed(area) == [kind |-> "Fixed", height |-> 0, area |-> area]

\* ------------------------------------------------------ compute_inline_size

lines_after_cursor_with_cursor_row(height, offset_in_previous_viewport) ==
    saturating_sub(height, offset_in_previous_viewport)

lines_after_cursor(height, offset_in_previous_viewport) ==
    saturating_sub(saturating_sub(height, offset_in_previous_viewport), 1)

inline_row_no_missing(height, size, offset_in_previous_viewport, pos) ==
    saturating_sub(pos.y, offset_in_previous_viewport)

inline_row_lifted_by_height(height, size, offset_in_previous_viewport, pos) ==
    saturating_sub(saturating_sub(pos.y, height), offset_in_previous_viewport)

inline_row(height, size, offset_in_previous_viewport, pos) ==
    LET available_lines == saturating_sub(saturating_sub(size.height, pos.y), 1)
        missing_lines == saturating_sub(
            lines_after_cursor(height, offset_in_previous_viewport), available_lines)
        row == IF missing_lines > 0 THEN saturating_sub(pos.y, missing_lines) ELSE pos.y
    IN  saturating_sub(row, offset_in_previous_viewport)

compute_inline_size_unclamped(backend, height, size, offset_in_previous_viewport, pos) ==
    LET b1 == backend_call(backend, OpPos("get_cursor_position", pos))
        b2 == backend_call(
            b1, OpN("append_lines", lines_after_cursor(height, offset_in_previous_viewport)))
    IN  [backend |-> b2,
         rect |-> Rect(0, inline_row(height, size, offset_in_previous_viewport, pos),
                       size.width, height),
         pos |-> pos]

\* Returns the backend handle with the (Rect, Position) pair of the source.
compute_inline_size(backend, height, size, offset_in_previous_viewport, pos) ==
    LET b1 == backend_call(backend, OpPos("get_cursor_position", pos))
        b2 == backend_call(
            b1, OpN("append_lines", lines_after_cursor(height, offset_in_previous_viewport)))
    IN  [backend |-> b2,
         rect |-> Rect(0, inline_row(height, size, offset_in_previous_viewport, pos),
                       size.width, Min(size.height, height)),
         pos |-> pos]

\* --------------------------------------------------------------- Terminal

\* What a render callback does with its Frame: the cells it writes into the
\* current buffer, the cursor position it asks for (<<>> for none), and whether it
\* returns Ok or an error.
RenderWrites == {"nothing", "text", "raw_wide", "wide"}

\* "text" repaints the buffer with a glyph and blanks, "raw_wide" with a
\* double-width glyph stored through get_mut (no skip cell) and blanks, "wide"
\* with blanks and a double-width glyph written by set_string at the origin.
render_callback(buffer, writes) ==
    CASE writes = "nothing" -> buffer
      [] writes = "wide" ->
            set_string(buffer_reset(buffer), buffer.area.x, buffer.area.y, CellWide)
      [] writes = "text" ->
            Buffer(buffer.area,
                   [i \in 1..Len(buffer.content) |-> IF i = 1 THEN CellA ELSE DefaultCell])
      [] writes = "raw_wide" ->
            Buffer(buffer.area,
                   [i \in 1..Len(buffer.content) |-> IF i = 1 THEN CellWide ELSE DefaultCell])

\* usize::MAX, at the narrowest pointer width Rust supports (16 bits).
UsizeMax == 65535

saturating_add(n, m) == Min(n + m, UsizeMax)

wrapping_add(n, m) == (n + m) % (UsizeMax + 1)

set_viewport_area_from_previous(t, area) ==
    [t EXCEPT !.buffers = [i \in {0, 1} |-> buffer_resize(t.buffers[1 - t.current], area)],
              !.viewport_area = area]

set_viewport_area_current_only(t, area) ==
    [t EXCEPT !.buffers = [i \in {0, 1} |->
                  IF i = t.current THEN buffer_resize(t.buffers[i], area)
                  ELSE t.buffers[i]],
              !.viewport_area = area]

set_viewport_area(t, area) ==
    [t EXCEPT !.buffers = [i \in {0, 1} |-> buffer_resize(t.buffers[i], area)],
              !.viewport_area = area]

\* The Fixed arm of clear: one cursor move and one clear per row of the area.
RECURSIVE clear_rows(_, _, _)
clear_rows(t, y, end) ==
    IF y >= end THEN t
    ELSE clear_rows(
            backend_call(
                backend_call(t, OpPos("set_cursor_position", Position(0, y))),
                Op("clear_region")),
            y + 1, end)

clear_keeps_back_buffer(t) ==
    LET t0 == [t EXCEPT !.cleared = TRUE]
    IN  CASE t.viewport.kind = "Fullscreen" -> backend_call(t0, Op("clear_region"))
          [] t.viewport.kind = "Inline" ->
                backend_call(
                    backend_call(
                        t0, OpPos("set_cursor_position", as_position(t.viewport_area))),
                    Op("clear_region"))
          [] t.viewport.kind = "Fixed" ->
                clear_rows(t0, top(t.viewport.area), bottom(t.viewport.area))

clear(t) ==
    LET t0 == [t EXCEPT !.cleared = TRUE]
        t1 == CASE t.viewport.kind = "Fullscreen" -> backend_call(t0, Op("clear_region"))
                [] t.viewport.kind = "Inline" ->
                      backend_call(
                          backend_call(
                              t0, OpPos("set_cursor_position", as_position(t.viewport_area))),
                          Op("clear_region"))
                [] t.viewport.kind = "Fixed" ->
                      clear_rows(t0, top(t.viewport.area), bottom(t.viewport.area))
    IN  IF t1.err # "none" THEN t1
        ELSE [t1 EXCEPT !.buffers[1 - t.current] = buffer_reset(@)]

resize_fixed_follows_area(t, area, pos) ==
    LET offset_in_previous_viewport ==
            saturating_sub(t.last_known_cursor_pos.y, top(t.viewport_area))
        inl == compute_inline_size(
            t, t.viewport.height, as_size(area), offset_in_previous_viewport, pos)
        t1 == IF t.viewport.kind = "Inline" THEN inl.backend ELSE t
        next_area == IF t.viewport.kind = "Inline" THEN inl.rect ELSE area
    IN  IF t1.err # "none" THEN [t1 EXCEPT !.cleared = TRUE]
        ELSE LET t2 == clear(set_viewport_area(t1, next_area))
             IN  IF t2.err # "none" THEN t2
                 ELSE [t2 EXCEPT !.last_known_area = area]

resize_records_area_first(t, area, pos) ==
    LET offset_in_previous_viewport ==
            saturating_sub(t.last_known_cursor_pos.y, top(t.viewport_area))
        inl == compute_inline_size(
            t, t.viewport.height, as_size(area), offset_in_previous_viewport, pos)
        t1 == IF t.viewport.kind = "Inline" THEN inl.backend ELSE t
        next_area == CASE t.viewport.kind = "Fullscreen" -> area
                       [] t.viewport.kind = "Inline" -> inl.rect
                       [] t.viewport.kind = "Fixed" -> t.viewport.area
    IN  IF t1.err # "none" THEN [t1 EXCEPT !.cleared = TRUE, !.last_known_area = area]
        ELSE [clear(set_viewport_area(t1, next_area)) EXCEPT !.last_known_area = area]

resize(t, area, pos) ==
    LET offset_in_previous_viewport ==
            saturating_sub(t.last_known_cursor_pos.y, top(t.viewport_area))
        inl == compute_inline_size(
            t, t.viewport.height, as_size(area), offset_in_previous_viewport, pos)
        t1 == IF t.viewport.kind = "Inline" THEN inl.backend ELSE t
        next_area == CASE t.viewport.kind = "Fullscreen" -> area
                       [] t.viewport.kind = "Inline" -> inl.rect
                       [] t.viewport.kind = "Fixed" -> t.viewport.area
    IN  IF t1.err # "none" THEN [t1 EXCEPT !.cleared = TRUE]
        ELSE LET t2 == clear(set_viewport_area(t1, next_area))
             IN  IF t2.err # "none" THEN t2
                 ELSE [t2 EXCEPT !.last_known_area = area]

autoresize(t, size, pos) ==
    IF t.viewport.kind \in {"Fullscreen", "Inline"}
    THEN LET t1 == backend_call(t, OpSize(size))
             area == rect_from(ORIGIN, size)
         IN  IF t1.err # "none" THEN t1
             ELSE IF area # t1.last_known_area THEN resize(t1, area, pos) ELSE t1
    ELSE t

flush_repaints_all(t) ==
    LET updates == diff(buffer_empty(t.viewport_area), t.buffers[t.current])
        last == updates[Len(updates)]
        t1 == IF updates # <<>>
              THEN [t EXCEPT !.last_known_cursor_pos = Position(last.x, last.y)]
              ELSE t
    IN  backend_call(t1, OpDraw(updates))

flush_swapped_diff(t) ==
    LET updates == diff(t.buffers[t.current], t.buffers[1 - t.current])
        last == updates[Len(updates)]
        t1 == IF updates # <<>>
              THEN [t EXCEPT !.last_known_cursor_pos = Position(last.x, last.y)]
              ELSE t
    IN  backend_call(t1, OpDraw(updates))

flush(t) ==
    LET previous_buffer == t.buffers[1 - t.current]
        current_buffer == t.buffers[t.current]
        updates == diff(previous_buffer, current_buffer)
        last == updates[Len(updates)]
        t1 == IF updates # <<>>
              THEN [t EXCEPT !.last_known_cursor_pos = Position(last.x, last.y)]
              ELSE t
    IN  backend_call(t1, OpDraw(updates))

hide_cursor_error_dropped(t) ==
    [backend_call(t, Op("hide_cursor")) EXCEPT !.err = t.err, !.hidden_cursor = TRUE]

hide_cursor(t) ==
    LET t1 == backend_call(t, Op("hide_cursor"))
    IN  IF t1.err # "none" THEN t1 ELSE [t1 EXCEPT !.hidden_cursor = TRUE]

show_cursor_before_backend(t) ==
    [backend_call(t, Op("show_cursor")) EXCEPT !.hidden_cursor = FALSE]

show_cursor(t) ==
    LET t1 == backend_call(t, Op("show_cursor"))
    IN  IF t1.err # "none" THEN t1 ELSE [t1 EXCEPT !.hidden_cursor = FALSE]

set_cursor_position_unrecorded(t, position) ==
    backend_call(t, OpPos("set_cursor_position", position))

set_cursor_position(t, position) ==
    LET t1 == backend_call(t, OpPos("set_cursor_position", position))
    IN  IF t1.err # "none" THEN t1 ELSE [t1 EXCEPT !.last_known_cursor_pos = position]

swap_buffers_without_reset(t) ==
    [t EXCEPT !.current = 1 - t.current]

swap_buffers(t) ==
    [t EXCEPT !.buffers[1 - t.current] = buffer_reset(@),
              !.current = 1 - t.current]

try_draw_finish_swaps_first(t, cursor_position) ==
    LET t1 == flush(step(swap_buffers(t), "swap_buffers"))
        t2 == IF cursor_position = <<>> THEN hide_cursor(t1)
              ELSE set_cursor_position(show_cursor(t1), cursor_position[1])
        t4 == backend_call(t2, Op("flush"))
    IN  IF t4.err # "none" THEN t4
        ELSE [step(t4, "frame_count") EXCEPT
                !.frame_count = wrapping_add(@, 1),
                !.completed = <<[buffer |-> t4.buffers[1 - t4.current],
                                 area |-> t4.last_known_area,
                                 count |-> t4.frame_count]>>]

try_draw_finish_returns_current(t, cursor_position) ==
    LET t1 == flush(t)
        t2 == IF cursor_position = <<>> THEN hide_cursor(t1)
              ELSE set_cursor_position(show_cursor(t1), cursor_position[1])
        t3 == IF t2.err # "none" THEN t2 ELSE step(swap_buffers(t2), "swap_buffers")
        t4 == backend_call(t3, Op("flush"))
    IN  IF t4.err # "none" THEN t4
        ELSE [step(t4, "frame_count") EXCEPT
                !.frame_count = wrapping_add(@, 1),
                !.completed = <<[buffer |-> t4.buffers[t4.current],
                                 area |-> t4.last_known_area,
                                 count |-> t4.frame_count]>>]

\* The part of try_draw after the render callback returned Ok.
try_draw_finish(t, cursor_position) ==
    LET t1 == flush(t)
        t2 == IF cursor_position = <<>> THEN hide_cursor(t1)
              ELSE set_cursor_position(show_cursor(t1), cursor_position[1])
        t3 == IF t2.err # "none" THEN t2 ELSE step(swap_buffers(t2), "swap_buffers")
        t4 == backend_call(t3, Op("flush"))
    IN  IF t4.err # "none" THEN t4
        ELSE [step(t4, "frame_count") EXCEPT
                !.frame_count = wrapping_add(@, 1),
                !.completed = <<[buffer |-> t4.buffers[1 - t4.current],
                                 area |-> t4.last_known_area,
                                 count |-> t4.frame_count]>>]

get_frame_and_render_after_flush(t, render) ==
    LET t1 == backend_call(t, Op("flush"))
    IN  [t1 EXCEPT !.trace = Append(@, OpRender(render)),
                   !.buffers[t.current] = render_callback(@, render.writes),
                   !.count_seen = <<t.frame_count>>]

\* get_frame, then the callback runs on the Frame: it sees frame_count and writes
\* into the current buffer; the trace keeps whether it returned Ok.
get_frame_and_render(t, render) ==
    [t EXCEPT !.trace = Append(@, OpRender(render)),
              !.buffers[t.current] = render_callback(@, render.writes),
              !.count_seen = <<t.frame_count>>]

try_draw_unchecked(t, size, pos, render) ==
    LET t1 == autoresize(step(t, "autoresize"), size, pos)
    IN  IF t1.err # "none" THEN t1
        ELSE try_draw_finish(get_frame_and_render(t1, render), render.cursor_position)

try_draw(t, size, pos, render) ==
    LET t1 == autoresize(step(t, "autoresize"), size, pos)
    IN  IF t1.err # "none" THEN t1
        ELSE LET t2 == get_frame_and_render(t1, render)
             IN  IF ~render.ok THEN [t2 EXCEPT !.err = "render"]
                 ELSE try_draw_finish(t2, render.cursor_position)

\* What the draw_fn of insert_before writes into the buffer it is given:
\* nothing, or text in every row, styled by the row.
InsertWrites == {"nothing", "rows"}

draw_fn(buffer, writes) ==
    CASE writes = "nothing" -> buffer
      [] writes = "rows" ->
            Buffer(buffer.area,
                   [i \in 1..Len(buffer.content) |->
                       Cell("a", pos_of(buffer.area, i).y + 1, FALSE)])

\* Scroll the whole screen up by the given number of lines.
scroll_up(t, lines_to_scroll) ==
    IF lines_to_scroll > 0
    THEN backend_call(
            set_cursor_position(
                t, Position(0, saturating_sub(t.last_known_area.height, 1))),
            OpN("append_lines", lines_to_scroll))
    ELSE t

\* Draws the first lines_to_draw lines of the cells at y_offset and returns the
\* cells left over; split_at panics when there are fewer cells than that.
draw_lines(t, y_offset, lines_to_draw, cells) ==
    LET width == t.last_known_area.width
        n == width * lines_to_draw
        updates == [i \in 1..n |->
                       Update((i - 1) % width, y_offset + ((i - 1) \div width), cells[i])]
    IN  IF t.err # "none" THEN [t |-> t, cells |-> cells]
        ELSE IF n > Len(cells) THEN [t |-> [t EXCEPT !.err = "panic"], cells |-> cells]
        ELSE [t |-> IF lines_to_draw > 0
                    THEN backend_call(backend_call(t, OpDraw(updates)), Op("flush"))
                    ELSE t,
              cells |-> SubSeq(cells, n + 1, Len(cells))]

loop_scroll_up_unclamped(drawn_height, to_draw, screen_height) ==
    drawn_height + to_draw - screen_height

\* The scroll amount of one pass of the loop.
loop_scroll_up(drawn_height, to_draw, screen_height) ==
    Max(0, drawn_height + to_draw - screen_height)

\* The while loop of insert_before.  A pass that draws nothing and scrolls
\* nothing leaves every variable as it was, so the loop repeats it for ever.
RECURSIVE insert_loop(_, _, _, _)
insert_loop(t, drawn_height, buffer_height, cells) ==
    LET viewport_height == t.viewport_area.height
        screen_height == t.last_known_area.height
        to_draw == Min(buffer_height, screen_height)
        scroll_up_by == loop_scroll_up(drawn_height, to_draw, screen_height)
        t2 == [t EXCEPT !.trace = Append(@,
                  OpLoop([drawn_height |-> drawn_height, buffer_height |-> buffer_height,
                          viewport_height |-> viewport_height,
                          screen_height |-> screen_height,
                          to_draw |-> to_draw, scroll_up |-> scroll_up_by]))]
        drawn == draw_lines(scroll_up(t2, scroll_up_by), drawn_height - scroll_up_by,
                            to_draw, cells)
        done == [t |-> t, drawn_height |-> drawn_height,
                 buffer_height |-> buffer_height, cells |-> cells]
    IN  IF t.err # "none" \/ ~(buffer_height + viewport_height > screen_height) THEN done
        ELSE IF to_draw = 0 /\ scroll_up_by = 0
        THEN [done EXCEPT !.t = [t2 EXCEPT !.err = "hang"]]
        ELSE insert_loop(drawn.t, drawn_height + to_draw - scroll_up_by,
                         buffer_height - to_draw, drawn.cells)

final_scroll_up_ignoring_viewport(drawn_height, buffer_height, viewport_height, screen_height) ==
    Max(0, drawn_height + buffer_height - screen_height)

\* The scroll amount after the loop: what leaves the screen exactly filled.
final_scroll_up(drawn_height, buffer_height, viewport_height, screen_height) ==
    Max(0, drawn_height + buffer_height + viewport_height - screen_height)

matches_any_viewport(viewport) == TRUE

\* matches!(self.viewport, Viewport::Inline(_))
matches_inline(viewport) == viewport.kind = "Inline"

insert_before(t, height, writes) ==
    IF ~matches_inline(t.viewport) THEN t
    ELSE LET area == Rect(0, 0, t.viewport_area.width, height)
             buffer == draw_fn(buffer_empty(area), writes)
             t0 == [t EXCEPT !.trace = Append(@, OpDrawFn(height, writes))]
             looped == insert_loop(t0, top(t.viewport_area), height, buffer.content)
             viewport_height == t.viewport_area.height
             screen_height == t.last_known_area.height
             scroll_up_by == final_scroll_up(looped.drawn_height, looped.buffer_height,
                                             viewport_height, screen_height)
             drawn == draw_lines(scroll_up(looped.t, scroll_up_by),
                                 looped.drawn_height - scroll_up_by,
                                 looped.buffer_height, looped.cells)
             drawn_height == looped.drawn_height + looped.buffer_height - scroll_up_by
         IN  IF drawn.t.err # "none" THEN drawn.t
             ELSE clear(set_viewport_area(
                     drawn.t, [t.viewport_area EXCEPT !.y = drawn_height]))

drop_error_escalates(t) ==
    IF t.hidden_cursor THEN show_cursor(t) ELSE t

\* Drop: a hidden cursor is shown again; a failure is printed and dropped.
drop(t) ==
    IF t.hidden_cursor
    THEN LET t1 == show_cursor(t)
         IN  IF t1.err # "none" THEN [step(t1, "eprintln") EXCEPT !.err = "none"]
             ELSE t1
    ELSE t

with_options_cursor_at_origin(fail, viewport, size, pos) ==
    LET b0 == backend_new(fail)
        b1 == IF viewport.kind = "Fixed" THEN b0 ELSE backend_call(b0, OpSize(size))
        area == IF viewport.kind = "Fixed" THEN viewport.area ELSE rect_from(ORIGIN, size)
        inl == compute_inline_size(b1, viewport.height, as_size(area), 0, pos)
        b2 == IF viewport.kind = "Inline" THEN inl.backend ELSE b1
        viewport_area == IF viewport.kind = "Inline" THEN inl.rect ELSE area
        cursor_pos == IF viewport.kind = "Inline" THEN inl.pos ELSE ORIGIN
    IN  [trace |-> b2.trace, nops |-> b2.nops, fail |-> b2.fail, err |-> b2.err,
         cleared |-> FALSE, completed |-> <<>>, count_seen |-> <<>>,
         buffers |-> [i \in {0, 1} |-> buffer_empty(viewport_area)],
         current |-> 0,
         hidden_cursor |-> FALSE,
         viewport |-> viewport,
         viewport_area |-> viewport_area,
         last_known_area |-> area,
         last_known_cursor_pos |-> cursor_pos,
         frame_count |-> 0]

with_options(fail, viewport, size, pos) ==
    LET b0 == backend_new(fail)
        b1 == IF viewport.kind = "Fixed" THEN b0 ELSE backend_call(b0, OpSize(size))
        area == IF viewport.kind = "Fixed" THEN viewport.area ELSE rect_from(ORIGIN, size)
        inl == compute_inline_size(b1, viewport.height, as_size(area), 0, pos)
        b2 == IF viewport.kind = "Inline" THEN inl.backend ELSE b1
        viewport_area == IF viewport.kind = "Inline" THEN inl.rect ELSE area
        cursor_pos == CASE viewport.kind = "Fullscreen" -> ORIGIN
                        [] viewport.kind = "Inline" -> inl.pos
                        [] viewport.kind = "Fixed" -> as_position(area)
    IN  [trace |-> b2.trace, nops |-> b2.nops, fail |-> b2.fail, err |-> b2.err,
         cleared |-> FALSE, completed |-> <<>>, count_seen |-> <<>>,
         buffers |-> [i \in {0, 1} |-> buffer_empty(viewport_area)],
         current |-> 0,
         hidden_cursor |-> FALSE,
         viewport |-> viewport,
         viewport_area |-> viewport_area,
         last_known_area |-> area,
         last_known_cursor_pos |-> cursor_pos,
         frame_count |-> 0]

\* --------------------------------------------------------------- variables

VARIABLES
    buffers,                \* Terminal.buffers, indexed 0 and 1
    current,                \* Terminal.current
    hidden_cursor,          \* Terminal.hidden_cursor
    viewport,               \* Terminal.viewport
    viewport_area,          \* Terminal.viewport_area
    last_known_area,        \* Terminal.last_known_area
    last_known_cursor_pos,  \* Terminal.last_known_cursor_pos
    frame_count,            \* Terminal.frame_count
    fn,     \* the last call, or the function under study and how far it has run
    args,   \* its inputs
    ret     \* its result

terminal_vars ==
    <<buffers, current, hidden_cursor, viewport, viewport_area, last_known_area,
      last_known_cursor_pos, frame_count>>

vars == <<terminal_vars, fn, args, ret>>

NoRet == [updates |-> <<>>]

\* The terminal the specifications of the pure functions leave untouched.
NoTerminal ==
    /\ buffers = [i \in {0, 1} |-> buffer_empty(Rect(0, 0, 0, 0))]
    /\ current = 0
    /\ hidden_cursor = FALSE
    /\ viewport = Fixed(Rect(0, 0, 0, 0))
    /\ viewport_area = Rect(0, 0, 0, 0)
    /\ last_known_area = Rect(0, 0, 0, 0)
    /\ last_known_cursor_pos = ORIGIN
    /\ frame_count = 0

\* -------------------------------------------- specification: the Terminal

\* Sizes the backend reports.
Sizes == {Size(2, 1), Size(1, 2)}

\* Cursor positions the backend reports; the row may lie below the screen.
CursorReports == {Position(0, 0), Position(0, 1)}

Viewports == {Fullscreen, Inline(2), Fixed(Rect(0, 1, 2, 1))}

Render(writes, cursor_position, ok) ==
    [writes |-> writes, cursor_position |-> cursor_position, ok |-> ok]

\* The render callbacks a frame is drawn with; a callback that fails returns
\* before its cursor request is read.
Renders ==
    {Render("nothing", <<>>, TRUE), Render("text", <<>>, TRUE),
     Render("text", <<Position(1, 0)>>, TRUE), Render("raw_wide", <<>>, TRUE),
     Render("wide", <<>>, TRUE),
     Render("nothing", <<>>, FALSE), Render("text", <<>>, FALSE)}

\* What the backend answers when asked: autoresize of a Fixed viewport never asks
\* for the size, and only the inline placement of a resize asks for the cursor.
SizeReports(v) == IF v.kind = "Fixed" THEN {Size(1, 1)} ELSE Sizes

CursorReportsFor(v, resizing) ==
    IF v.kind = "Inline" /\ resizing THEN CursorReports ELSE {ORIGIN}

\* The Terminal as the call finds it, with a fresh handle on the backend.
self(fail) ==
    [trace |-> <<>>, nops |-> 0, fail |-> fail, err |-> "none",
     cleared |-> FALSE, completed |-> <<>>, count_seen |-> <<>>,
     buffers |-> buffers,
     current |-> current,
     hidden_cursor |-> hidden_cursor,
     viewport |-> viewport,
     viewport_area |-> viewport_area,
     last_known_area |-> last_known_area,
     last_known_cursor_pos |-> last_known_cursor_pos,
     frame_count |-> frame_count]

Result(t) ==
    [result |-> IF t.err = "none" THEN "ok" ELSE t.err,
     trace |-> t.trace,
     cleared |-> t.cleared,
     completed |-> t.completed,
     count_seen |-> t.count_seen]

\* The call returns: the Terminal is as the call left it.
Return(t, name, inputs) ==
    /\ buffers' = t.buffers
    /\ current' = t.current
    /\ hidden_cursor' = t.hidden_cursor
    /\ viewport' = t.viewport
    /\ viewport_area' = t.viewport_area
    /\ last_known_area' = t.last_known_area
    /\ last_known_cursor_pos' = t.last_known_cursor_pos
    /\ frame_count' = t.frame_count
    /\ fn' = name
    /\ args' = inputs
    /\ ret' = Result(t)

Init ==
    \E v \in Viewports, size \in Sizes, pos \in CursorReports :
        LET t == with_options(0, v, size, pos) IN
        /\ buffers = t.buffers
        /\ current = t.current
        /\ hidden_cursor = t.hidden_cursor
        /\ viewport = t.viewport
        /\ viewport_area = t.viewport_area
        /\ last_known_area = t.last_known_area
        /\ last_known_cursor_pos = t.last_known_cursor_pos
        /\ frame_count = t.frame_count
        /\ fn = "with_options"
        /\ args = [render |-> <<>>]
        /\ ret = Result(t)

\* The Terminal is alive until it is dropped.
Alive == fn # "drop"

TryDraw ==
    /\ Alive
    /\ frame_count # MaxFrames
    /\ \E fail \in 0..MaxOps, size \in SizeReports(viewport), render \in Renders :
       \E pos \in CursorReportsFor(viewport, rect_from(ORIGIN, size) # last_known_area) :
        LET t == try_draw(self(fail), size, pos, render) IN
        Return(t, "try_draw", [render |-> <<>>])

Autoresize ==
    /\ Alive
    /\ \E fail \in 0..MaxOps, size \in SizeReports(viewport) :
       \E pos \in CursorReportsFor(viewport, rect_from(ORIGIN, size) # last_known_area) :
        LET t == autoresize(self(fail), size, pos) IN
        Return(t, "autoresize", [render |-> <<>>])

Resize ==
    /\ Alive
    /\ \E fail \in 0..MaxOps, size \in Sizes, pos \in CursorReportsFor(viewport, TRUE) :
        LET t == resize(self(fail), rect_from(ORIGIN, size), pos) IN
        Return(t, "resize", [render |-> <<>>])

Clear ==
    /\ Alive
    /\ \E fail \in 0..MaxOps :
        LET t == clear(self(fail)) IN
        Return(t, "clear", [render |-> <<>>])

SwapBuffers ==
    /\ Alive
    /\ Return(swap_buffers(self(0)), "swap_buffers", [render |-> <<>>])

Drop ==
    /\ Alive
    /\ \E fail \in 0..1 :
        LET t == drop(self(fail)) IN
        Return(t, "drop", [render |-> <<>>])

Next == TryDraw \/ Autoresize \/ Resize \/ Clear \/ SwapBuffers \/ Drop

Spec == Init /\ [][Next]_vars

\* ----------------------------------------------- claims about the Terminal

\* The names of a trace's entries, in order.
Names(trace) == [k \in 1..Len(trace) |-> trace[k].op]

\* The entries of a trace that are backend operations.
BackendEntries(trace) == {k \in 1..Len(trace) : trace[k].op \in BackendOps}

\* Where the render callback ran in a trace (0 when it did not run).
RenderAt(trace) ==
    IF \E k \in 1..Len(trace) : trace[k].op = "render_callback"
    THEN CHOOSE k \in 1..Len(trace) : trace[k].op = "render_callback"
    ELSE 0

\* The change list a trace's backend.draw calls were given.
RECURSIVE DrawUpdatesFrom(_, _)
DrawUpdatesFrom(trace, k) ==
    IF k > Len(trace) THEN <<>>
    ELSE (IF trace[k].op = "draw" THEN trace[k].updates ELSE <<>>)
         \o DrawUpdatesFrom(trace, k + 1)

DrawUpdates(trace) == DrawUpdatesFrom(trace, 1)

\* The step just taken is a try_draw whose render callback returned an error.
RenderFailed ==
    /\ fn' = "try_draw"
    /\ RenderAt(ret'.trace) # 0
    /\ ~ret'.trace[RenderAt(ret'.trace)].ok

ConsecutiveDraws ==
    /\ fn = "try_draw" /\ ret.result = "ok"
    /\ fn' = "try_draw" /\ ret'.result = "ok"
    /\ ~ret'.cleared

\* The cell a completed frame rendered at the position of an update.
RenderedAt(frame, u) == frame.buffer.content[index_of(frame.buffer.area, u.x, u.y)]

FrameStepsHidden ==
    <<"render_callback", "draw", "hide_cursor", "swap_buffers", "flush", "frame_count">>

FrameStepsShown ==
    <<"render_callback", "draw", "show_cursor", "set_cursor_position", "swap_buffers",
      "flush", "frame_count">>

\* C3: in every successful draw the steps happen once each and in this order:
\* autoresize, render callback, backend.draw of diff(previous, current), cursor
\* hide or show + move, buffer swap, backend.flush, frame_count increment.
FrameStepsInOrder ==
    [][(fn' = "try_draw" /\ ret'.result = "ok") =>
        LET trace == ret'.trace
            at == RenderAt(trace)
            previous == IF ret'.cleared THEN buffer_empty(viewport_area')
                        ELSE buffers[1 - current]
        IN
        /\ at > 1
        /\ trace[1].op = "autoresize"
        /\ \A k \in 2..(at - 1) :
            trace[k].op \in {"size", "get_cursor_position", "append_lines",
                             "set_cursor_position", "clear_region"}
        /\ SubSeq(Names(trace), at, Len(trace)) \in {FrameStepsHidden, FrameStepsShown}
        /\ DrawUpdates(trace) = diff(previous, ret'.completed[1].buffer)
        /\ buffers'[1 - current'] = ret'.completed[1].buffer
        /\ frame_count' = wrapping_add(frame_count, 1)]_vars

FrameStepsWitness ==
    /\ fn = "try_draw"
    /\ ret.result = "ok"
    /\ ret.cleared
    /\ SubSeq(Names(ret.trace), RenderAt(ret.trace), Len(ret.trace)) = FrameStepsShown
    /\ DrawUpdates(ret.trace) # <<>>

\* C4: when a backend operation fails during try_draw the call returns the
\* error at once: the failed operation is the last one issued, it is issued
\* once, and frame_count is not incremented.
BackendFailureAborts ==
    [][fn' = "try_draw" =>
        \A k \in BackendEntries(ret'.trace) :
            ~ret'.trace[k].ok =>
                /\ ret'.result = "io"
                /\ k = Len(ret'.trace)
                /\ frame_count' = frame_count]_vars

BackendFailureWitness ==
    /\ fn = "try_draw"
    /\ ret.result = "io"
    /\ ret.trace[Len(ret.trace)].op = "flush"
    /\ ~ret.trace[Len(ret.trace)].ok
    /\ \E k \in 1..Len(ret.trace) : ret.trace[k].op = "swap_buffers"

\* All cells of a buffer are default cells.
AllDefault(b) == \A i \in 1..Len(b.content) : b.content[i] = DefaultCell

\* The step just taken is a resize that succeeded.
Resized == fn' = "resize" /\ ret'.result = "ok"

\* C11, as claimed: after resize succeeds the current buffer holds only default
\* cells, whatever had been written to it before.
ResizeLeavesCurrentDefault ==
    [][Resized => AllDefault(buffers'[current'])]_vars

\* C11, amended: resize resets the previous buffer only; the current buffer
\* holds only default cells after it if it did before (as after construction,
\* a successful draw or swap_buffers), and current is unchanged.
ResizeKeepsCurrentDefault ==
    [][Resized =>
        /\ current' = current
        /\ buffers'[current'].area = viewport_area'
        /\ AllDefault(buffers[current]) => AllDefault(buffers'[current'])]_vars

ResizeKeepsCurrentDefaultWitness ==
    /\ fn = "resize"
    /\ ret.result = "ok"
    /\ frame_count > 0
    /\ rect_area(viewport_area) > 1
    /\ AllDefault(buffers[current])

\* The step just taken is a successful draw that follows a successful clear or
\* resize directly, or that resized by itself.
DrawAfterClear ==
    /\ fn' = "try_draw" /\ ret'.result = "ok"
    /\ \/ fn \in {"clear", "resize"} /\ ret.result = "ok"
       \/ ret'.cleared

\* An update of the change list is at the i-th cell of the area.
EmittedAt(updates, area, i) ==
    \E k \in 1..Len(updates) : index_of(area, updates[k].x, updates[k].y) = i

\* After clear or resize succeeded the previous buffer is all default.
BackBufferReset ==
    (fn \in {"clear", "resize"} /\ ret.result = "ok")
        => buffers[1 - current] = buffer_empty(viewport_area)

\* C12, as claimed: after clear or resize succeeds the previous buffer holds
\* only default cells, and the change list of the next draw contains every cell
\* the render leaves different from the default cell.
ClearForcesFullRepaint ==
    /\ []BackBufferReset
    /\ [][DrawAfterClear =>
            LET frame == ret'.completed[1].buffer IN
            \A i \in 1..Len(frame.content) :
                frame.content[i] # DefaultCell
                    => EmittedAt(DrawUpdates(ret'.trace), frame.area, i)]_vars

\* C12, amended: after clear or resize succeeds the previous buffer holds only
\* default cells, and the change list of the next draw contains every cell the
\* render leaves different from the default cell, except skip cells and the
\* cell directly after a double-width glyph, which diff never emits.
ClearForcesRepaintButContinuations ==
    /\ []BackBufferReset
    /\ [][DrawAfterClear =>
            LET frame == ret'.completed[1].buffer
                updates == DrawUpdates(ret'.trace)
            IN
            /\ \A i \in 1..Len(frame.content) :
                \/ frame.content[i] = DefaultCell
                \/ frame.content[i].skip
                \/ i > 1 /\ symbol_width(frame.content[i - 1].symbol) = 2
                \/ EmittedAt(updates, frame.area, i)
            /\ \A k \in 1..Len(updates) : updates[k].cell = RenderedAt(ret'.completed[1], updates[k])]_vars

ClearForcesRepaintWitness ==
    /\ fn = "try_draw"
    /\ ret.result = "ok"
    /\ ret.cleared
    /\ frame_count = 2
    /\ Len(DrawUpdates(ret.trace)) = 1
    /\ Len(ret.completed[1].buffer.content) = 2
    /\ ret.completed[1].buffer.content[2].skip

\* The step just taken is a draw that succeeded.
Drawn == fn' = "try_draw" /\ ret'.result = "ok"

\* The entries of a trace with a given name.
Entries(trace, name) == {k \in 1..Len(trace) : trace[k].op = name}

\* C15: after a successful draw whose callback set no cursor position,
\* hide_cursor was issued and hidden_cursor is true; otherwise show_cursor and
\* then set_cursor_position(requested) were issued, hidden_cursor is false and
\* last_known_cursor_pos is the requested position.
CursorAppliedAfterDraw ==
    [][Drawn =>
        LET trace == ret'.trace
            at == RenderAt(trace)
            requested == trace[at].pos
            after(name) == {k \in Entries(trace, name) : k > at}
        IN
        IF requested = <<>>
        THEN /\ Cardinality(after("hide_cursor")) = 1
             /\ after("show_cursor") = {}
             /\ after("set_cursor_position") = {}
             /\ hidden_cursor'
        ELSE /\ after("hide_cursor") = {}
             /\ \E j \in after("show_cursor") :
                    /\ after("show_cursor") = {j}
                    /\ after("set_cursor_position") = {j + 1}
                    /\ trace[j + 1].pos = requested
             /\ ~hidden_cursor'
             /\ last_known_cursor_pos' = requested[1]]_vars

CursorAppliedWitness ==
    /\ fn = "try_draw"
    /\ ret.result = "ok"
    /\ frame_count = 2
    /\ ~hidden_cursor
    /\ DrawUpdates(ret.trace) # <<>>
    /\ last_known_cursor_pos = Position(1, 0)
    /\ \A k \in 1..Len(DrawUpdates(ret.trace)) :
        Position(DrawUpdates(ret.trace)[k].x, DrawUpdates(ret.trace)[k].y)
            # last_known_cursor_pos

\* C16: when the Terminal is dropped, show_cursor is issued exactly once if
\* hidden_cursor is true and not at all if it is false; a failure of that
\* show_cursor is printed and teardown completes all the same.
DropRestoresCursor ==
    [][fn' = "drop" =>
        LET trace == ret'.trace
            shown == Entries(trace, "show_cursor")
        IN
        /\ ret'.result = "ok"
        /\ Cardinality(shown) = (IF hidden_cursor THEN 1 ELSE 0)
        /\ BackendEntries(trace) = shown
        /\ \A k \in shown :
            IF trace[k].ok
            THEN Entries(trace, "eprintln") = {} /\ ~hidden_cursor'
            ELSE Entries(trace, "eprintln") = {k + 1} /\ hidden_cursor'
        /\ shown = {} => trace = <<>> /\ UNCHANGED terminal_vars]_vars

DropRestoresCursorWitness ==
    /\ fn = "drop"
    /\ ret.result = "ok"
    /\ Names(ret.trace) = <<"show_cursor", "eprintln">>
    /\ ~ret.trace[1].ok
    /\ frame_count > 0

\* What the render callback of the draw just taken left in the buffer it was
\* given: the current buffer as the call found it, resized when the draw resized.
Rendered ==
    render_callback(
        IF ret'.cleared THEN buffer_resize(buffers[current], viewport_area')
        ELSE buffers[current],
        ret'.trace[RenderAt(ret'.trace)].writes)

\* C17: swap_buffers resets the inactive buffer and flips current, so after it
\* and after every successful draw the current buffer is all default cells, the
\* previous buffer holds what was just rendered, and current is 0 or 1.
SwapResetsAndFlips ==
    /\ [](current \in {0, 1})
    /\ [][fn' = "swap_buffers" =>
            /\ current' = 1 - current
            /\ buffers'[current'] = buffer_empty(viewport_area')
            /\ buffers'[1 - current'] = buffers[current]]_vars
    /\ [][Drawn =>
            /\ current' = 1 - current
            /\ buffers'[current'] = buffer_empty(viewport_area')
            /\ buffers'[1 - current'] = Rendered]_vars

SwapResetsAndFlipsWitness ==
    /\ fn = "try_draw"
    /\ ret.result = "ok"
    /\ frame_count = 2
    /\ current = 0
    /\ ~AllDefault(buffers[1])
    /\ AllDefault(buffers[0])
    /\ DrawUpdates(ret.trace) = <<>>

\* C19: the CompletedFrame of a successful draw holds the buffer rendered in
\* that draw, the area of the terminal (last_known_area) and the frame_count
\* from before the increment.
CompletedFrameHoldsFrame ==
    [][Drawn =>
        /\ Len(ret'.completed) = 1
        /\ ret'.completed[1].buffer = Rendered
        /\ ret'.completed[1].area = last_known_area'
        /\ ret'.completed[1].count = frame_count]_vars

CompletedFrameWitness ==
    /\ fn = "try_draw"
    /\ ret.result = "ok"
    /\ ret.completed[1].count = 1
    /\ ret.completed[1].area # ret.completed[1].buffer.area
    /\ ~AllDefault(ret.completed[1].buffer)

\* ------------------------------- specifications: one kind of viewport each

\* Where in the trace of the last call the render callback ran.
RenderSteps == {i \in 1..Len(ret.trace) : ret.trace[i].op = "render_callback"}

\* The trace of the last call before its render callback returned: all of it
\* when the callback never ran.
BeforeRender == {i \in 1..Len(ret.trace) : \A j \in RenderSteps : i < j}

\* The backend operations of autoresize: the size query and those of resize.
AutoresizeOps ==
    {"size", "get_cursor_position", "append_lines", "set_cursor_position", "clear_region"}

\* The original statement of C26: no backend operation at all precedes the
\* render callback.
NoBackendOpBeforeRender ==
    fn = "try_draw" =>
        \A i \in BeforeRender : RenderSteps # {} => ret.trace[i].op \notin BackendOps

\* C26: within a draw, no backend operation of the frame (the draw of the
\* diff, hiding, showing or placing the cursor, the flush) is issued before the
\* render callback has run to completion; the backend operations before it
\* are those of autoresize: the size query first and, when the size changed,
\* the cursor query, append_lines and clear of the resize.
NoFrameOutputBeforeRender ==
    fn = "try_draw" =>
        \A i \in BeforeRender :
            LET e == ret.trace[i] IN
            e.op \in BackendOps =>
                /\ e.op \in AutoresizeOps
                /\ \E j \in 1..i : ret.trace[j].op = "size"
                /\ (e.op = "set_cursor_position" /\ e.ok) =>
                        /\ i < Len(ret.trace)
                        /\ ret.trace[i + 1].op = "clear_region"

\* A draw that resized an inline viewport before the callback ran and drew
\* cells after it.
NoFrameOutputBeforeRenderWitness ==
    /\ fn = "try_draw"
    /\ ret.result = "ok"
    /\ \E j \in RenderSteps :
          /\ \E i \in 1..(j - 1) : ret.trace[i].op = "append_lines"
          /\ \E i \in 1..(j - 1) : ret.trace[i].op = "clear_region"
          /\ \E i \in (j + 1)..Len(ret.trace) :
                ret.trace[i].op = "draw" /\ ret.trace[i].updates # <<>>

\* C34: in every reachable state both buffers have the viewport's area and a
\* content array of exactly width * height cells of that area.
BuffersMatchViewport ==
    \A i \in {0, 1} :
        /\ buffers[i].area = viewport_area
        /\ Len(buffers[i].content) = viewport_area.width * viewport_area.height

\* A resize that failed after set_viewport_area, once a frame had been drawn:
\* the viewport has a new area, of another width than last_known_area.
BuffersMatchViewportWitness ==
    /\ fn = "resize"
    /\ ret.result = "io"
    /\ frame_count > 0
    /\ viewport.kind = "Fullscreen"
    /\ viewport_area.width # last_known_area.width

\* The area the backend reported to the autoresize that ends in the state.
ReportedArea(r) == rect_from(ORIGIN, r.trace[1].size[1])

\* The call that ends in the state is an autoresize that was answered a size.
AutoresizeAsked(f, v, r) ==
    /\ f = "autoresize"
    /\ v.kind # "Fixed"
    /\ r.trace[1].op = "size"
    /\ r.trace[1].ok

\* C38: last_known_area is updated to the new area only when resize completes
\* successfully; when resize fails (a backend error during the inline
\* placement or the clear) it keeps its old value, so the next autoresize
\* under the same backend size attempts the resize again.
LastKnownAreaOnSuccess ==
    [][/\ (fn' \in {"resize", "autoresize"} /\ ret'.result # "ok") =>
              last_known_area' = last_known_area
       /\ AutoresizeAsked(fn', viewport', ret') =>
              /\ ret'.result = "ok" => last_known_area' = ReportedArea(ret')
              /\ ReportedArea(ret') # last_known_area => Len(ret'.trace) > 1
       /\ (/\ AutoresizeAsked(fn, viewport, ret)
           /\ ret.result # "ok"
           /\ AutoresizeAsked(fn', viewport', ret')
           /\ ReportedArea(ret') = ReportedArea(ret)) =>
              /\ Len(ret'.trace) > 1
              /\ ret'.trace[2].op \in {"get_cursor_position", "clear_region"}]_vars

\* An autoresize whose resize failed in the clear, after set_viewport_area: the
\* viewport has the reported area and last_known_area still the old one.
LastKnownAreaOnSuccessWitness ==
    /\ AutoresizeAsked(fn, viewport, ret)
    /\ ret.result = "io"
    /\ ret.cleared
    /\ viewport.kind = "Fullscreen"
    /\ viewport_area = ReportedArea(ret)
    /\ last_known_area # ReportedArea(ret)

FixedInit == Init /\ viewport.kind = "Fixed"

FixedSpec == FixedInit /\ [][Next]_vars

FullscreenInit == Init /\ viewport.kind = "Fullscreen"

FullscreenSpec == FullscreenInit /\ [][Next]_vars

ReportedSize(trace) ==
    IF \E k \in 1..Len(trace) : trace[k].op = "size" /\ trace[k].ok
    THEN trace[CHOOSE k \in 1..Len(trace) : trace[k].op = "size" /\ trace[k].ok].size
    ELSE <<>>

\* C14: for a Fullscreen viewport, after every successful autoresize or draw,
\* viewport_area, last_known_area and both buffers' areas are (0, 0, W, H) for
\* the size (W, H) the backend reported during the call; when that size equals
\* last_known_area, nothing is resized or cleared.
FullscreenTracksBackend ==
    [][(fn' \in {"autoresize", "try_draw"} /\ ret'.result = "ok") =>
        LET reported == ReportedSize(ret'.trace)
            area == rect_from(ORIGIN, reported[1])
        IN
        /\ reported # <<>>
        /\ viewport_area' = area
        /\ last_known_area' = area
        /\ \A i \in {0, 1} : buffers'[i].area = area
        /\ area = last_known_area =>
            /\ ~ret'.cleared
            /\ \A k \in 1..Len(ret'.trace) : ret'.trace[k].op # "clear_region"
            /\ \A i \in {0, 1} : buffers'[i].area = buffers[i].area
            /\ fn' = "autoresize" => UNCHANGED terminal_vars]_vars

\* --------------------------------------- specification: a long-lived Terminal

\* A fullscreen Terminal that has drawn UsizeMax empty frames on a backend of
\* the given size: the cursor is hidden, the buffers were swapped as many times
\* and are empty.
after_many_draws(size) ==
    [with_options(0, Fullscreen, size, ORIGIN) EXCEPT
        !.trace = <<>>, !.nops = 0,
        !.hidden_cursor = TRUE,
        !.current = UsizeMax % 2,
        !.frame_count = UsizeMax]

\* The Terminal right after construction, or as its UsizeMax-th draw left it
\* (of that draw itself nothing is kept).
CountInit ==
    \/ FullscreenInit
    \/ \E size \in Sizes :
        LET t == after_many_draws(size)
        IN  /\ buffers = t.buffers
            /\ current = t.current
            /\ hidden_cursor = t.hidden_cursor
            /\ viewport = t.viewport
            /\ viewport_area = t.viewport_area
            /\ last_known_area = t.last_known_area
            /\ last_known_cursor_pos = t.last_known_cursor_pos
            /\ frame_count = t.frame_count
            /\ fn = "after_many_draws"
            /\ args = [render |-> <<>>]
            /\ ret = Result(t)

CountSpec == CountInit /\ [][Next]_vars

\* The callback of the call just made ran.
Rendering == fn' = "try_draw" /\ RenderAt(ret'.trace) # 0

\* C18: frame_count starts at 0, increases by exactly 1 on each successful
\* draw, wrapping from the largest machine word to 0 without error, and no other
\* operation and no failed draw changes it; the count the render callback sees
\* is frame_count as the draw found it, that is the number of draws completed
\* before it modulo the word size.
FrameCountCounts ==
    /\ [](fn = "with_options" => frame_count = 0)
    /\ [](frame_count \in 0..UsizeMax)
    /\ [][/\ Rendering => ret'.count_seen = <<frame_count>>
          /\ IF Drawn
             THEN /\ frame_count < UsizeMax => frame_count' = frame_count + 1
                  /\ frame_count = UsizeMax => frame_count' = 0
             ELSE frame_count' = frame_count]_vars

FrameCountWitness ==
    /\ fn = "try_draw"
    /\ ret.result = "ok"
    /\ frame_count = 0
    /\ ret.count_seen = <<UsizeMax>>
    /\ ~AllDefault(ret.completed[1].buffer)

\* ------------------------------------------- specification: insert_before

InsertViewports ==
    {Fullscreen, Fixed(Rect(0, 1, 2, 1))} \cup {Inline(h) : h \in 0..InsertMaxViewport}

InsertSizes == {Size(2, h) : h \in 0..InsertMaxScreen} \cup {Size(1, 2)}

InsertCursorReports == {Position(0, r) : r \in 0..InsertMaxRow}

InsertCursorReportsFor(v) == IF v.kind = "Inline" THEN InsertCursorReports ELSE {ORIGIN}

InsertInit ==
    \E v \in InsertViewports, size \in InsertSizes :
    \E pos \in InsertCursorReportsFor(v) :
        LET t == with_options(0, v, size, pos) IN
        /\ buffers = t.buffers
        /\ current = t.current
        /\ hidden_cursor = t.hidden_cursor
        /\ viewport = t.viewport
        /\ viewport_area = t.viewport_area
        /\ last_known_area = t.last_known_area
        /\ last_known_cursor_pos = t.last_known_cursor_pos
        /\ frame_count = t.frame_count
        /\ fn = "with_options"
        /\ args = [render |-> <<>>]
        /\ ret = Result(t)

\* A call that panicked or never returns is followed by no other call.
Returned == ret.result \notin {"panic", "hang"}

InsertBefore ==
    /\ Returned
    /\ \E fail \in 0..MaxOps, height \in 0..InsertMaxHeight, writes \in InsertWrites :
        LET t == insert_before(self(fail), height, writes) IN
        Return(t, "insert_before", [render |-> <<>>])

InsertResize ==
    /\ Returned
    /\ \E fail \in 0..MaxOps, size \in InsertSizes :
       \E pos \in InsertCursorReportsFor(viewport) :
        LET t == resize(self(fail), rect_from(ORIGIN, size), pos) IN
        Return(t, "resize", [render |-> <<>>])

InsertNext == InsertBefore \/ InsertResize

InsertSpec == InsertInit /\ [][InsertNext]_vars

\* The passes of the loop of the last call, as the values of its locals.
LoopPasses == {ret.trace[i].locals[1] : i \in {j \in 1..Len(ret.trace) : ret.trace[j].op = "loop"}}

\* C22: in every iteration of insert_before's loop, with
\* to_draw = min(buffer_height, screen_height) and
\* scroll_up = max(0, drawn_height + to_draw - screen_height), the four
\* constraints hold: scroll_up >= 0, scroll_up <= drawn_height,
\* drawn_height - scroll_up + to_draw <= screen_height and
\* drawn_height - scroll_up + to_draw >= screen_height - viewport_height.
LoopConstraints ==
    \A l \in LoopPasses :
        /\ l.to_draw = Min(l.buffer_height, l.screen_height)
        /\ l.scroll_up >= 0
        /\ l.scroll_up <= l.drawn_height
        /\ l.drawn_height - l.scroll_up + l.to_draw <= l.screen_height
        /\ l.drawn_height - l.scroll_up + l.to_draw >= l.screen_height - l.viewport_height

\* A call whose loop ran a pass that did not scroll and then a pass that did,
\* with lines still left to draw.
LoopConstraintsWitness ==
    /\ fn = "insert_before"
    /\ ret.result = "ok"
    /\ \E l \in LoopPasses : l.scroll_up > 0 /\ l.to_draw < l.buffer_height
    /\ \E l \in LoopPasses : l.scroll_up = 0 /\ l.to_draw > 0

\* The viewport lies within the screen the terminal knows.
WithinScreen == bottom(viewport_area) <= last_known_area.height

\* The call that returns in the next state is a successful insert_before.
Inserted == fn' = "insert_before" /\ ret'.result = "ok"

\* C23: after insert_before(height) succeeds on an inline viewport that lay
\* within the screen, the viewport keeps x, width and height and its top row
\* is min(old_top + height, screen_height - viewport_height), so it neither
\* extends below the screen nor ends higher than it started; the last backend
\* operations are the clear of the viewport area, after all drawing and
\* scrolling.
InsertMovesViewport ==
    [][(Inserted /\ viewport.kind = "Inline" /\ WithinScreen) =>
        LET height == ret'.trace[1].n
            tr == ret'.trace
            k == Len(tr)
        IN  /\ viewport_area' =
                  [viewport_area EXCEPT !.y =
                      Min(top(viewport_area) + height,
                          last_known_area.height - viewport_area.height)]
            /\ top(viewport_area') >= top(viewport_area)
            /\ bottom(viewport_area') <= last_known_area.height
            /\ k >= 3
            /\ tr[k - 1] = OpPos("set_cursor_position", as_position(viewport_area'))
            /\ tr[k] = Op("clear_region")
            /\ \A i \in 1..(k - 2) :
                  tr[i].op \in {"draw_fn", "loop", "set_cursor_position",
                                "append_lines", "draw", "flush"}
            /\ \A i \in 1..(k - 2) :
                  tr[i].op = "set_cursor_position" => tr[i + 1].op = "append_lines"]_vars

\* An inline viewport pushed down to the bottom of the screen by an insert
\* that both scrolled and drew.
InsertMovesViewportWitness ==
    /\ fn = "insert_before"
    /\ ret.result = "ok"
    /\ viewport.kind = "Inline"
    /\ viewport_area.height > 0
    /\ top(viewport_area) > 0
    /\ bottom(viewport_area) = last_known_area.height
    /\ ret.trace[1].n > 0
    /\ \E i \in 1..Len(ret.trace) : ret.trace[i].op = "append_lines"
    /\ \E i \in 1..Len(ret.trace) : ret.trace[i].op = "draw"

\* C24: insert_before on a Terminal whose viewport is Fullscreen or Fixed is a
\* no-op: it returns Ok, issues no backend operation, does not run the draw
\* closure and leaves every field of the terminal unchanged.
InsertBeforeOnlyInline ==
    [][(fn' = "insert_before" /\ viewport.kind \in {"Fullscreen", "Fixed"}) =>
        /\ ret'.result = "ok"
        /\ ret'.trace = <<>>
        /\ UNCHANGED terminal_vars]_vars

\* insert_before has returned on a fullscreen terminal with a screen to draw on.
InsertBeforeOnlyInlineWitness ==
    /\ fn = "insert_before"
    /\ viewport.kind = "Fullscreen"
    /\ rect_area(viewport_area) > 0

\* C32: insert_before terminates for every requested height and every
\* terminal state: each iteration of its loop strictly reduces the number of
\* rows still to insert, including when the screen height is 0 or smaller than
\* the viewport height.
InsertBeforeTerminates ==
    fn = "insert_before" =>
        /\ ret.result # "hang"
        /\ \A l \in LoopPasses : l.to_draw > 0

\* The screen as the backend operations of the last call leave it, row by row:
\* k for the k-th row drawn by the call, 0 for anything else.  Rows pushed off
\* the top go to the scrollback; wellformed says that every draw so far drew
\* whole rows of the inserted buffer's width, inside the screen.
ScreenStart ==
    [screen |-> [y \in 1..last_known_area.height |-> 0], scrollback |-> <<>>,
     drawn |-> 0, cursor |-> 0, wellformed |-> TRUE]

ScreenDraw(st, updates, labelled) ==
    LET w == viewport_area.width
        lines == IF w = 0 THEN 0 ELSE Len(updates) \div w
        row_of(j) == updates[(j - 1) * w + 1].y
    IN  [st EXCEPT
            !.screen = [y \in 1..Len(st.screen) |->
                           IF \E j \in 1..lines : row_of(j) = y - 1
                           THEN st.drawn + (CHOOSE j \in 1..lines : row_of(j) = y - 1)
                           ELSE st.screen[y]],
            !.drawn = st.drawn + lines,
            !.wellformed =
                /\ st.wellformed
                /\ w > 0
                /\ Len(updates) = lines * w
                /\ \A j \in 1..lines :
                      /\ row_of(j) \in 0..(Len(st.screen) - 1)
                      /\ \A k \in 1..(j - 1) : row_of(k) < row_of(j)
                      /\ \A x \in 0..(w - 1) :
                            LET u == updates[(j - 1) * w + x + 1] IN
                            /\ u.x = x
                            /\ u.y = row_of(j)
                            /\ labelled => u.cell.style = st.drawn + j]

ScreenScroll(st, n) ==
    LET gone == SubSeq(st.screen, 1, Min(n, Len(st.screen)))
    IN  [st EXCEPT
            !.screen = [y \in 1..Len(st.screen) |->
                           IF y + n <= Len(st.screen) THEN st.screen[y + n] ELSE 0],
            !.scrollback = @ \o SelectSeq(gone, LAMBDA l : l > 0)]

ScreenClear(st) ==
    [st EXCEPT !.screen = [y \in 1..Len(st.screen) |->
                              IF y - 1 >= st.cursor THEN 0 ELSE st.screen[y]]]

RECURSIVE ScreenAfter(_, _, _)
ScreenAfter(tr, k, st) ==
    IF k > Len(tr) THEN st
    ELSE LET e == tr[k]
             next == CASE e.op = "draw" -> ScreenDraw(st, e.updates, tr[1].writes = "rows")
                       [] e.op = "append_lines" -> ScreenScroll(st, e.n)
                       [] e.op = "set_cursor_position" -> [st EXCEPT !.cursor = e.pos[1].y]
                       [] e.op = "clear_region" -> ScreenClear(st)
                       [] OTHER -> st
         IN  ScreenAfter(tr, k + 1, next)

\* C33: after insert_before(height) succeeds, every row of the inserted buffer
\* has been drawn exactly once and in top-to-bottom order, each at a row
\* inside [0, screen_height), and the inserted rows still on screen occupy
\* consecutive rows ending immediately above the viewport's new top row in
\* their original order, the earlier rows having scrolled into the
\* scrollback.
InsertedRowsAboveViewport ==
    (fn = "insert_before" /\ ret.result = "ok" /\ viewport.kind = "Inline") =>
        LET height == ret.trace[1].n
            st == ScreenAfter(ret.trace, 1, ScreenStart)
            on_screen == SelectSeq(st.screen, LAMBDA l : l > 0)
            m == Len(on_screen)
        IN  /\ st.wellformed
            /\ st.drawn = height
            /\ st.scrollback \o on_screen = [k \in 1..height |-> k]
            /\ \A y \in 1..Len(st.screen) :
                  st.screen[y] > 0 <=>
                      (y - 1 >= top(viewport_area) - m /\ y - 1 < top(viewport_area))

\* ------------------------------- specification: an inline Terminal at work

\* An inline Terminal whose calls all succeed, on a backend that reports the
\* cursor on a row of the screen.
AnchorViewports == {Inline(h) : h \in 0..InsertMaxViewport}

AnchorSizes == {Size(2, h) : h \in 1..InsertMaxScreen} \cup {Size(1, 2)}

AnchorCursorReports(size) == {Position(0, r) : r \in 0..(size.height - 1)}

AnchorInit ==
    \E v \in AnchorViewports, size \in AnchorSizes :
    \E pos \in AnchorCursorReports(size) :
        LET t == with_options(0, v, size, pos) IN
        /\ buffers = t.buffers
        /\ current = t.current
        /\ hidden_cursor = t.hidden_cursor
        /\ viewport = t.viewport
        /\ viewport_area = t.viewport_area
        /\ last_known_area = t.last_known_area
        /\ last_known_cursor_pos = t.last_known_cursor_pos
        /\ frame_count = t.frame_count
        /\ fn = "with_options"
        /\ args = [render |-> <<>>]
        /\ ret = Result(t)

AnchorDraw ==
    /\ frame_count # MaxFrames
    /\ \E size \in AnchorSizes, render \in Renders :
       \E pos \in AnchorCursorReports(size) :
        LET t == try_draw(self(0), size, pos, render) IN
        /\ t.err = "none"
        /\ Return(t, "try_draw", [render |-> <<>>])

AnchorResize ==
    \E size \in AnchorSizes :
    \E pos \in AnchorCursorReports(size) :
        LET t == resize(self(0), rect_from(ORIGIN, size), pos) IN
        /\ t.err = "none"
        /\ Return(t, "resize", [render |-> <<>>])

AnchorInsert ==
    \E height \in 0..InsertMaxHeight, writes \in InsertWrites :
        LET t == insert_before(self(0), height, writes) IN
        /\ t.err = "none"
        /\ Return(t, "insert_before", [render |-> <<>>])

AnchorNext == AnchorDraw \/ AnchorResize \/ AnchorInsert

AnchorSpec == AnchorInit /\ [][AnchorNext]_vars

\* C35: for an Inline(H) viewport on a backend that reports a cursor row inside
\* the screen, after any sequence of successful draw, resize and insert_before
\* calls the viewport starts at column 0, is as wide as last_known_area,
\* min(H, last_known_area.height) rows high, and ends within last_known_area.
InlineAnchored ==
    viewport.kind = "Inline" =>
        /\ viewport_area.x = 0
        /\ viewport_area.width = last_known_area.width
        /\ viewport_area.height = Min(viewport.height, last_known_area.height)
        /\ viewport_area.y + viewport_area.height <= last_known_area.height

\* An insert_before that scrolled the screen and left a two-row viewport below
\* the top of the screen, on a terminal that had drawn a frame.
InlineAnchoredWitness ==
    /\ fn = "insert_before"
    /\ ret.result = "ok"
    /\ frame_count > 0
    /\ viewport = Inline(2)
    /\ viewport_area.y > 0
    /\ \E i \in 1..Len(ret.trace) :
          ret.trace[i].op = "append_lines" /\ ret.trace[i].n > 0

\* ------------------------- specification: the Terminal's steps, one by one

\* The public methods try_draw is made of, called by the application itself in
\* any order: get_frame and a render into its buffer, flush, swap_buffers,
\* hide_cursor, show_cursor and set_cursor_position.
StepPositions == {Position(0, 0), Position(1, 0), Position(0, 1)}

StepGetFrame ==
    \E writes \in RenderWrites :
        Return(get_frame_and_render(self(0), Render(writes, <<>>, TRUE)),
               "get_frame", [render |-> <<>>])

StepFlush ==
    \E fail \in 0..1 :
        Return(flush(self(fail)), "flush", [render |-> <<>>])

StepSwapBuffers ==
    Return(swap_buffers(self(0)), "swap_buffers", [render |-> <<>>])

StepHideCursor ==
    \E fail \in 0..1 :
        Return(hide_cursor(self(fail)), "hide_cursor", [render |-> <<>>])

StepShowCursor ==
    \E fail \in 0..1 :
        Return(show_cursor(self(fail)), "show_cursor", [render |-> <<>>])

StepSetCursorPosition ==
    \E fail \in 0..1, position \in StepPositions :
        Return(set_cursor_position(self(fail), position), "set_cursor_position",
               [render |-> <<>>, position |-> position])

StepNext ==
    \/ StepGetFrame
    \/ StepFlush
    \/ StepSwapBuffers
    \/ StepHideCursor
    \/ StepShowCursor
    \/ StepSetCursorPosition

StepSpec == Init /\ [][StepNext]_vars

CursorCallsFollowBackend ==
    [][fn' \in {"hide_cursor", "show_cursor", "set_cursor_position"} =>
        /\ Len(ret'.trace) = 1
        /\ ret'.trace[1].op = fn'
        /\ ret'.result = IF ret'.trace[1].ok THEN "ok" ELSE "io"
        /\ ~ret'.trace[1].ok =>
              /\ hidden_cursor' = hidden_cursor
              /\ last_known_cursor_pos' = last_known_cursor_pos
        /\ ret'.trace[1].ok =>
              /\ hidden_cursor' = CASE fn' = "hide_cursor" -> TRUE
                                     [] fn' = "show_cursor" -> FALSE
                                     [] OTHER -> hidden_cursor
              /\ last_known_cursor_pos' =
                    IF fn' = "set_cursor_position" THEN args'.position
                    ELSE last_known_cursor_pos]_vars

\* A show_cursor that failed on a hidden cursor and left it hidden.
CursorCallsFollowBackendWitness ==
    /\ fn = "show_cursor"
    /\ ret.result = "io"
    /\ hidden_cursor
    /\ last_known_cursor_pos # ORIGIN

\* -------------------------------------------- specification: construction

ConstructRects ==
    {Rect(x, y, w, h) : x \in 0..ConstructMaxCoord, y \in 0..ConstructMaxCoord,
                        w \in 0..ConstructMaxCoord, h \in 0..ConstructMaxCoord}

ConstructViewports == {Fullscreen, Inline(1)} \cup {Fixed(r) : r \in ConstructRects}

ConstructInit ==
    \E v \in ConstructViewports :
    \E size \in SizeReports(v), pos \in CursorReportsFor(v, TRUE) :
        LET t == with_options(0, v, size, pos) IN
        /\ buffers = t.buffers
        /\ current = t.current
        /\ hidden_cursor = t.hidden_cursor
        /\ viewport = t.viewport
        /\ viewport_area = t.viewport_area
        /\ last_known_area = t.last_known_area
        /\ last_known_cursor_pos = t.last_known_cursor_pos
        /\ frame_count = t.frame_count
        /\ fn = "with_options"
        /\ args = [render |-> <<>>]
        /\ ret = Result(t)

\* Another Terminal is constructed and takes the place of this one; a
\* construction that fails yields no Terminal.
WithOptions ==
    \E fail \in 0..MaxOps, v \in ConstructViewports :
    \E size \in SizeReports(v), pos \in CursorReportsFor(v, TRUE) :
        LET t == with_options(fail, v, size, pos) IN
        IF t.err = "none"
        THEN Return(t, "with_options", [render |-> <<>>])
        ELSE /\ fn' = "with_options"
             /\ args' = [render |-> <<>>]
             /\ ret' = Result(t)
             /\ UNCHANGED terminal_vars

\* The first frame is drawn on the Terminal constructed last.
ConstructDraw ==
    /\ frame_count = 0
    /\ \E size \in SizeReports(viewport), render \in Renders :
       \E pos \in CursorReportsFor(viewport, rect_from(ORIGIN, size) # last_known_area) :
        LET t == try_draw(self(0), size, pos, render) IN
        Return(t, "try_draw", [render |-> <<>>])

ConstructNext == WithOptions \/ ConstructDraw

ConstructSpec == ConstructInit /\ [][ConstructNext]_vars

\* C25: constructing a Terminal with Fixed(rect) sets viewport_area to rect
\* verbatim, makes both buffers empty over rect, initializes
\* last_known_cursor_pos to rect's top-left, with current = 0,
\* hidden_cursor = false and frame_count = 0.
FixedConstruction ==
    (fn = "with_options" /\ ret.result = "ok" /\ viewport.kind = "Fixed") =>
        LET rect == viewport.area IN
        /\ viewport_area = rect
        /\ \A i \in {0, 1} :
              /\ buffers[i].area = rect
              /\ Len(buffers[i].content) = rect.width * rect.height
              /\ \A k \in 1..Len(buffers[i].content) : buffers[i].content[k] = DefaultCell
        /\ last_known_cursor_pos = Position(rect.x, rect.y)
        /\ current = 0
        /\ hidden_cursor = FALSE
        /\ frame_count = 0

\* A Terminal constructed over a Fixed rectangle away from the origin.
FixedConstructionWitness ==
    /\ fn = "with_options"
    /\ ret.result = "ok"
    /\ viewport.kind = "Fixed"
    /\ viewport.area = Rect(1, 2, 2, 1)

\* ------------------------------------------------- specification: the diff

DiffAreas ==
    {Rect(o, o, w, h) : o \in {0, 1}, w \in 1..DiffMaxW, h \in 1..DiffMaxH}

DiffInit ==
    /\ NoTerminal
    /\ fn = "diff"
    /\ ret = NoRet
    /\ \E area \in {a \in DiffAreas : rect_area(a) <= DiffMaxCells} :
        \E ca, cb \in [1..rect_area(area) -> Cells] :
            args = [previous |-> Buffer(area, ca), next |-> Buffer(area, cb),
                    wrote |-> <<>>]

\* A widget writes a double-width glyph into the next buffer.
DiffSetString ==
    /\ fn = "diff"
    /\ args.wrote = <<>>
    /\ \E i \in 1..Len(args.next.content) :
        LET p == pos_of(args.next.area, i) IN
        /\ args' = [args EXCEPT !.next = set_string(@, p.x, p.y, CellWide),
                                !.wrote = <<p>>]
        /\ UNCHANGED <<terminal_vars, fn, ret>>

DiffApply ==
    /\ fn = "diff"
    /\ fn' = "diff_done"
    /\ ret' = [updates |-> diff(args.previous, args.next)]
    /\ UNCHANGED <<terminal_vars, args>>

DiffNext == DiffSetString \/ DiffApply

DiffSpec == DiffInit /\ [][DiffNext]_vars

\* ---------------------------------------------------- claims about the diff

DiffDone == fn = "diff_done"

\* The updates of the diff under study that land on cell i of the buffers.
UpdatesAt(i) ==
    {k \in 1..Len(ret.updates) :
        Position(ret.updates[k].x, ret.updates[k].y) = pos_of(args.previous.area, i)}

\* C5: diff idempotence: the diff of a buffer against itself is the empty list.
DiffIdempotent == (DiffDone /\ args.previous = args.next) => ret.updates = <<>>

DiffIdempotentWitness ==
    /\ DiffDone
    /\ args.previous = args.next
    /\ \E i, j \in 1..Len(args.next.content) :
        args.next.content[i] = CellWide /\ args.next.content[j] = CellA

\* C6, as claimed: writing every update of diff(A, B) onto a copy of A yields B.
DiffComplete ==
    DiffDone => apply_updates(args.previous, ret.updates) = args.next

\* Cell i of the next buffer is a continuation column: a skip cell, or the cell
\* that directly follows a double-width glyph.
Continuation(i) ==
    \/ args.next.content[i].skip
    \/ i > 1 /\ symbol_width(args.next.content[i - 1].symbol) = 2

\* C6, amended: writing every update of diff(A, B) onto a copy of A yields a
\* buffer of B's area that equals B at every cell that is not a continuation
\* column of B; those cells are never emitted and keep A's content.
DiffCompleteButContinuations ==
    DiffDone =>
        LET applied == apply_updates(args.previous, ret.updates) IN
        /\ applied.area = args.next.area
        /\ Len(applied.content) = Len(args.next.content)
        /\ \A i \in 1..Len(args.next.content) :
            IF Continuation(i)
            THEN UpdatesAt(i) = {} /\ applied.content[i] = args.previous.content[i]
            ELSE applied.content[i] = args.next.content[i]

DiffCompleteWitness ==
    /\ DiffDone
    /\ Len(ret.updates) >= 2
    /\ \E i \in 1..Len(args.next.content) :
        Continuation(i) /\ args.previous.content[i] # args.next.content[i]
    /\ \E i \in 1..Len(args.next.content) :
        ~Continuation(i) /\ args.previous.content[i] # args.next.content[i]

DiffAscending ==
    DiffDone =>
        \A k \in 1..(Len(ret.updates) - 1) :
            \/ ret.updates[k].y < ret.updates[k + 1].y
            \/ /\ ret.updates[k].y = ret.updates[k + 1].y
               /\ ret.updates[k].x < ret.updates[k + 1].x

DiffAscendingWitness ==
    /\ DiffDone
    /\ \E k \in 1..(Len(ret.updates) - 1) :
        /\ ret.updates[k].y < ret.updates[k + 1].y
        /\ ret.updates[k].x > ret.updates[k + 1].x
    /\ \E k \in 1..(Len(ret.updates) - 1) :
        /\ ret.updates[k].y = ret.updates[k + 1].y
        /\ ret.updates[k].x < ret.updates[k + 1].x

\* The double-width glyph written at args.wrote fitted before the right edge.
WroteWide(i) ==
    /\ args.wrote # <<>>
    /\ pos_of(args.next.area, i) = args.wrote[1]
    /\ args.wrote[1].x + 2 <= args.next.area.x + args.next.area.width

\* C9: writing a double-width glyph at column x makes the cell at column x + 1 a
\* skip cell, and the diff emits no update at a skip cell whose owning glyph is
\* the same in both buffers.
WideGlyphSkip ==
    fn \in {"diff", "diff_done"} =>
        /\ \A i \in 1..Len(args.next.content) :
            WroteWide(i) =>
                /\ args.next.content[i] = CellWide
                /\ args.next.content[i + 1].skip
        /\ DiffDone =>
            \A i \in 2..Len(args.next.content) :
                ( /\ args.next.content[i].skip
                  /\ symbol_width(args.next.content[i - 1].symbol) = 2
                  /\ args.previous.content[i - 1] = args.next.content[i - 1] )
                => UpdatesAt(i) = {}

WideGlyphSkipWitness ==
    /\ DiffDone
    /\ ret.updates # <<>>
    /\ \E i \in 1..Len(args.next.content) :
        /\ WroteWide(i)
        /\ args.previous.content[i] = args.next.content[i]
        /\ args.previous.content[i + 1] # args.next.content[i + 1]

\* ------------------------------------- specification: compute_inline_size

\* A viewport of 3 rows asked for on a screen of 24 rows, the cursor on row 20.
InlineScenario ==
    [height |-> 3, size |-> Size(3, 24), offset_in_previous_viewport |-> 0,
     pos |-> Position(1, 20), fail |-> 0]

InlineInit ==
    /\ NoTerminal
    /\ fn = "compute_inline_size"
    /\ ret = NoRet
    /\ args \in [height : 0..InlineMaxHeight,
                 size : {Size(3, h) : h \in 0..InlineMaxScreen},
                 offset_in_previous_viewport : 0..InlineMaxOffset,
                 pos : {Position(1, r) : r \in 0..InlineMaxRow},
                 fail : 0..2]
                \cup {InlineScenario}

InlineApply ==
    /\ fn = "compute_inline_size"
    /\ fn' = "compute_inline_size_done"
    /\ LET r == compute_inline_size(backend_new(args.fail), args.height, args.size,
                                    args.offset_in_previous_viewport, args.pos)
       IN  ret' = [result |-> IF r.backend.err = "none" THEN "ok" ELSE r.backend.err,
                   trace |-> r.backend.trace,
                   rect |-> r.rect,
                   pos |-> r.pos]
    /\ UNCHANGED <<terminal_vars, args>>

InlineNext == InlineApply

InlineSpec == InlineInit /\ [][InlineNext]_vars

InlineDone == fn = "compute_inline_size_done" /\ ret.result = "ok"

\* C10, as claimed: for every cursor row the backend reports, the viewport ends
\* at or above the backend's last row.
InlineWithinBackend ==
    InlineDone => ret.rect.y + ret.rect.height <= args.size.height

\* C10, amended: when the cursor row the backend reports lies on the screen
\* (row < backend height), the viewport ends at or above the backend's last row.
InlineWithinBackendOnScreen ==
    (InlineDone /\ args.pos.y < args.size.height)
        => ret.rect.y + ret.rect.height <= args.size.height

InlineWithinBackendWitness ==
    /\ InlineDone
    /\ args.pos.y < args.size.height
    /\ args.offset_in_previous_viewport > 0
    /\ ret.rect.y > 0
    /\ ret.rect.y < args.pos.y - args.offset_in_previous_viewport
    /\ ret.rect.y + ret.rect.height = args.size.height

\* The lines compute_inline_size appends, and the row it places the viewport
\* at, in plain integer arithmetic.
AppendedLines == Max(0, args.height - args.offset_in_previous_viewport - 1)

MissingLines == Max(0, AppendedLines - Max(0, args.size.height - args.pos.y - 1))

PlacedRow == Max(0, Max(0, args.pos.y - MissingLines) - args.offset_in_previous_viewport)

\* C20: compute_inline_size with height H, backend size (W, S_h), offset and
\* cursor row R asks for the cursor, issues one append_lines(max(0, H - offset -
\* 1)) and returns Rect{0, row, W, min(S_h, H)} with row = R lowered by the
\* missing lines and then by the offset, each saturating at 0, together with the
\* cursor position as queried.
InlinePlacement ==
    InlineDone =>
        /\ Names(ret.trace) = <<"get_cursor_position", "append_lines">>
        /\ ret.trace[1].pos = <<args.pos>>
        /\ ret.trace[2].n = AppendedLines
        /\ ret.rect = [x |-> 0, y |-> PlacedRow, width |-> args.size.width,
                       height |-> Min(args.size.height, args.height)]
        /\ ret.pos = args.pos

InlinePlacementWitness ==
    /\ InlineDone
    /\ args.offset_in_previous_viewport > 0
    /\ MissingLines > 0
    /\ MissingLines < AppendedLines
    /\ ret.rect.y > 0
    /\ ret.rect.y < args.pos.y - MissingLines

\* C21: for a viewport of height 3 on a 24-row backend with the cursor at row
\* 20 and offset 0, compute_inline_size appends exactly 2 lines and returns a
\* viewport of height 3 whose top row is at least 18 and at most 21.
InlineScenarioPlaced ==
    (InlineDone /\ args = InlineScenario) =>
        /\ Entries(ret.trace, "append_lines") = {2}
        /\ ret.trace[2].n = 2
        /\ ret.rect.height = 3
        /\ ret.rect.y >= 18
        /\ ret.rect.y <= 21

InlineScenarioWitness ==
    /\ InlineDone
    /\ args = InlineScenario
    /\ ret.rect = Rect(0, 20, 3, 3)

\* ------------------------------------------------------ CrosstermBackend

\* A command queued on the writer.  A cell's style folds its modifier and its
\* three colors, so the four comparisons of draw are one here.
Command(cmd, x, y, style, symbol) ==
    [cmd |-> cmd, x |-> x, y |-> y, style |-> style, symbol |-> symbol]

MoveTo(x, y) == Command("MoveTo", x, y, 0, "")

SetStyle(style) == Command("SetStyle", 0, 0, style, "")

CPrint(symbol) == Command("Print", 0, 0, 0, symbol)

\* The four resets that end a draw.
ResetStyle ==
    <<Command("SetForegroundColor", 0, 0, 0, ""), Command("SetBackgroundColor", 0, 0, 0, ""),
      Command("SetUnderlineColor", 0, 0, 0, ""), Command("SetAttribute", 0, 0, 0, "")>>

moves_on_row_change(last_pos, x, y) ==
    ~(last_pos # <<>> /\ y = last_pos[1].y)

\* Move the cursor if the previous location was not (x - 1, y).
moves_cursor(last_pos, x, y) ==
    ~(last_pos # <<>> /\ x = last_pos[1].x + 1 /\ y = last_pos[1].y)

\* The loop of draw from item i on: what it queues when no write fails.
RECURSIVE draw_content(_, _, _, _)
draw_content(content, i, last_pos, style) ==
    IF i > Len(content) THEN <<>>
    ELSE LET c == content[i]
             move == IF moves_cursor(last_pos, c.x, c.y) THEN <<MoveTo(c.x, c.y)>> ELSE <<>>
             restyle == IF c.cell.style # style THEN <<SetStyle(c.cell.style)>> ELSE <<>>
         IN  move \o restyle \o <<CPrint(c.cell.symbol)>>
                  \o draw_content(content, i + 1, <<Position(c.x, c.y)>>, c.cell.style)

\* CrosstermBackend::draw on a writer that fails the fail-th command queued
\* (0: none): every queue! returns at the first failure.
crossterm_draw(content, fail) ==
    LET queued == draw_content(content, 1, <<>>, 0) \o ResetStyle
    IN  IF fail \in 1..Len(queued)
        THEN [result |-> "io", out |-> SubSeq(queued, 1, fail - 1)]
        ELSE [result |-> "ok", out |-> queued]

\* ------------------------------------ specification: CrosstermBackend::draw

CrosstermCells ==
    {Update(x, y, c) : x \in 0..CrosstermMaxX, y \in 0..CrosstermMaxY,
                       c \in {DefaultCell, CellA}}

CrosstermInit ==
    /\ NoTerminal
    /\ fn = "crossterm_draw"
    /\ ret = NoRet
    /\ \E n \in 0..CrosstermMaxCells :
        \E content \in [1..n -> CrosstermCells] :
            args = [content |-> content]

CrosstermDraw ==
    /\ fn = "crossterm_draw"
    /\ fn' = "crossterm_draw_done"
    /\ \E fail \in 0..(3 * Len(args.content) + Len(ResetStyle)) :
        ret' = crossterm_draw(args.content, fail)
    /\ UNCHANGED <<terminal_vars, args>>

CrosstermNext == CrosstermDraw

CrosstermSpec == CrosstermInit /\ [][CrosstermNext]_vars

CrosstermDone == fn = "crossterm_draw_done"

\* Where the commands of a kind sit in the output of the draw under study.
CommandsAt(cmd) == {k \in 1..Len(ret.out) : ret.out[k].cmd = cmd}

\* The place in the output of the i-th Print, 0 when there is none.
NthPrint(i) ==
    IF \E k \in CommandsAt("Print") : Cardinality({j \in CommandsAt("Print") : j <= k}) = i
    THEN CHOOSE k \in CommandsAt("Print") :
            Cardinality({j \in CommandsAt("Print") : j <= k}) = i
    ELSE 0

\* The cursor moves queued after the Print of item i - 1 and before that of
\* item i.
MovesBefore(i) ==
    {k \in CommandsAt("MoveTo") : k > NthPrint(i - 1) /\ k < NthPrint(i)}

\* Item i is directly right of the item before it.
FollowsPrevious(i) ==
    /\ i > 1
    /\ args.content[i].x = args.content[i - 1].x + 1
    /\ args.content[i].y = args.content[i - 1].y

\* C27: CrosstermBackend::draw prints every cell's symbol exactly once in the
\* order given and emits a cursor move before a cell exactly when that cell
\* is the first of the call or is not at (x_prev + 1, y_prev) relative to the
\* cell printed just before it.
DrawPrintsAndMoves ==
    (CrosstermDone /\ ret.result = "ok") =>
        LET n == Len(args.content) IN
        /\ Cardinality(CommandsAt("Print")) = n
        /\ \A i \in 1..n :
              /\ ret.out[NthPrint(i)].symbol = args.content[i].cell.symbol
              /\ IF FollowsPrevious(i) THEN MovesBefore(i) = {}
                 ELSE /\ Cardinality(MovesBefore(i)) = 1
                      /\ \A k \in MovesBefore(i) :
                            ret.out[k] = MoveTo(args.content[i].x, args.content[i].y)
        /\ \A k \in CommandsAt("MoveTo") : k < NthPrint(n)

\* A draw of three cells: the second directly right of the first, the third
\* left of the second on the same row.
DrawPrintsAndMovesWitness ==
    /\ CrosstermDone
    /\ ret.result = "ok"
    /\ Len(args.content) = 3
    /\ FollowsPrevious(2)
    /\ args.content[3].y = args.content[2].y
    /\ args.content[3].x < args.content[2].x
    /\ Cardinality(CommandsAt("MoveTo")) = 2

\* ------------------------------------------------------------------ Masked

\* A string is the sequence of its characters.
Masked(inner, mask_char) == [inner |-> inner, mask_char |-> mask_char]

value_unmasked(m) == m.inner

\* The underlying string, with all characters masked.
value(m) == [i \in 1..Len(m.inner) |-> m.mask_char]

\* Debug: the underlying string.
fmt_debug(m) == m.inner

\* Display: the masked string.
fmt_display(m) == value(m)

cow_from(m) == value(m)

\* Text::raw of a string without line breaks: the one line the string is.
text_raw(content) == [lines |-> <<content>>]

text_from(m) == text_raw(value(m))

\* ---------------------------------------------------- specification: Masked

\* Characters of the underlying strings; the last takes more than one byte.
MaskedChars == {"1", "a", "e_acute"}

MaskChars == {"x", "*", "a"}

MaskedStrings ==
    UNION {[1..n -> MaskedChars] : n \in 0..MaskedMaxLen}

\* Two strings are masked with one mask character.
MaskedInit ==
    /\ NoTerminal
    /\ fn = "Masked::new"
    /\ ret = NoRet
    /\ \E inner, other \in MaskedStrings, mask_char \in MaskChars :
        args = [masked |-> Masked(inner, mask_char), other |-> Masked(other, mask_char)]

MaskedValue ==
    /\ fn = "Masked::new"
    /\ fn' = "value"
    /\ ret' = [out |-> value(args.masked), other |-> value(args.other)]
    /\ UNCHANGED <<terminal_vars, args>>

MaskedDisplay ==
    /\ fn = "Masked::new"
    /\ fn' = "fmt_display"
    /\ ret' = [out |-> fmt_display(args.masked), other |-> fmt_display(args.other)]
    /\ UNCHANGED <<terminal_vars, args>>

MaskedDebug ==
    /\ fn = "Masked::new"
    /\ fn' = "fmt_debug"
    /\ ret' = [out |-> fmt_debug(args.masked), other |-> fmt_debug(args.other)]
    /\ UNCHANGED <<terminal_vars, args>>

MaskedIntoCow ==
    /\ fn = "Masked::new"
    /\ fn' = "cow_from"
    /\ ret' = [out |-> cow_from(args.masked), other |-> cow_from(args.other)]
    /\ UNCHANGED <<terminal_vars, args>>

MaskedIntoText ==
    /\ fn = "Masked::new"
    /\ fn' = "text_from"
    /\ ret' = [out |-> text_from(args.masked), other |-> text_from(args.other)]
    /\ UNCHANGED <<terminal_vars, args>>

MaskedNext == MaskedValue \/ MaskedDisplay \/ MaskedDebug \/ MaskedIntoCow \/ MaskedIntoText

MaskedSpec == MaskedInit /\ [][MaskedNext]_vars

\* The mask character repeated once per character of the string.
Repeated(m) == [i \in 1..Len(m.inner) |-> m.mask_char]

\* C28: Masked::value, its Display output and its conversions to Cow<str>
\* and Text all yield mask_char repeated once per character of the underlying
\* string, so the output depends only on the character count and the mask
\* character and never on the underlying characters.
MaskedHidesCharacters ==
    /\ fn \in {"value", "fmt_display", "cow_from"} =>
          /\ ret.out = Repeated(args.masked)
          /\ Len(args.masked.inner) = Len(args.other.inner) => ret.out = ret.other
    /\ fn = "text_from" =>
          /\ ret.out.lines = <<Repeated(args.masked)>>
          /\ Len(args.masked.inner) = Len(args.other.inner) => ret.out = ret.other

\* Two different strings of three characters, one of them holding the mask
\* character itself, converted to Text.
MaskedHidesCharactersWitness ==
    /\ fn = "text_from"
    /\ Len(args.masked.inner) = MaskedMaxLen
    /\ Len(args.other.inner) = MaskedMaxLen
    /\ args.masked.inner # args.other.inner
    /\ \E i \in 1..Len(args.masked.inner) : args.masked.inner[i] = args.masked.mask_char
    /\ ret.out = ret.other

\* --------------------------------------------------------------- Sparkline

\* u64::MAX, at a width the checker's integers can hold.
U64Max == 255

\* symbols::bar::Set, each symbol by the name of its field.
NINE_LEVELS ==
    [empty |-> "empty", one_eighth |-> "one_eighth", one_quarter |-> "one_quarter",
     three_eighths |-> "three_eighths", half |-> "half", five_eighths |-> "five_eighths",
     three_quarters |-> "three_quarters", seven_eighths |-> "seven_eighths",
     full |-> "full"]

\* A Sparkline without a block.  max is <<>> for None, <<v>> for Some(v).
Sparkline(data, max, direction, style) ==
    [data |-> data, max |-> max, direction |-> direction, style |-> style,
     bar_set |-> NINE_LEVELS]

set_symbol(cell, symbol) == [cell EXCEPT !.symbol = symbol]

\* A style patches the cell: the default style changes nothing.
set_style(cell, style) == IF style = 0 THEN cell ELSE [cell EXCEPT !.style = style]

RECURSIVE iter_max(_)
iter_max(data) ==
    IF Len(data) = 0 THEN <<>>
    ELSE LET rest == iter_max(Tail(data))
         IN  IF rest # <<>> /\ rest[1] >= Head(data) THEN rest ELSE <<Head(data)>>

scaled_dividing_by_zero(e, height, max, build) ==
    IF max = 0 THEN [ok |-> FALSE, d |-> 0]
    ELSE IF e * height * 8 > U64Max
    THEN IF build = "debug" THEN [ok |-> FALSE, d |-> 0]
         ELSE [ok |-> TRUE, d |-> ((e * height * 8) % (U64Max + 1)) \div max]
    ELSE [ok |-> TRUE, d |-> (e * height * 8) \div max]

\* The height of a bar in eighths of a row.  The product overflows u64 for
\* large data: a build with overflow checks panics, one without wraps.
scaled(e, height, max, build) ==
    IF max = 0 THEN [ok |-> TRUE, d |-> 0]
    ELSE IF e * height * 8 > U64Max
    THEN IF build = "debug" THEN [ok |-> FALSE, d |-> 0]
         ELSE [ok |-> TRUE, d |-> ((e * height * 8) % (U64Max + 1)) \div max]
    ELSE [ok |-> TRUE, d |-> (e * height * 8) \div max]

bar_symbol(bar_set, d) ==
    CASE d = 0 -> bar_set.empty
      [] d = 1 -> bar_set.one_eighth
      [] d = 2 -> bar_set.one_quarter
      [] d = 3 -> bar_set.three_eighths
      [] d = 4 -> bar_set.half
      [] d = 5 -> bar_set.five_eighths
      [] d = 6 -> bar_set.three_quarters
      [] d = 7 -> bar_set.seven_eighths
      [] OTHER -> bar_set.full

column_left_to_right(direction, spark_area, i) == spark_area.x + i

\* The column of data item i (from 0).
column(direction, spark_area, i) ==
    CASE direction = "LeftToRight" -> spark_area.x + i
      [] direction = "RightToLeft" -> (spark_area.x + spark_area.width) - i - 1

\* The rows of the area from row j up to its top: each data item is drawn at
\* its column and loses the eight eighths drawn.
RECURSIVE render_rows(_, _, _, _, _, _)
render_rows(spark, spark_area, buf, data, j, writes) ==
    IF j < 0 THEN [result |-> "ok", buf |-> buf, writes |-> writes]
    ELSE LET y == top(spark_area) + j
             at(i) == index_of(buf.area, column(spark.direction, spark_area, i - 1), y)
             drawn == [k \in 1..Len(buf.content) |->
                          IF \E i \in 1..Len(data) : at(i) = k
                          THEN LET i == CHOOSE i \in 1..Len(data) : at(i) = k
                               IN  set_style(
                                       set_symbol(buf.content[k],
                                                  bar_symbol(spark.bar_set, data[i])),
                                       spark.style)
                          ELSE buf.content[k]]
             row == [i \in 1..Len(data) |->
                        [i |-> i - 1, x |-> column(spark.direction, spark_area, i - 1),
                         y |-> y]]
             left_over == [i \in 1..Len(data) |-> IF data[i] > 8 THEN data[i] - 8 ELSE 0]
         IN  render_rows(spark, spark_area, Buffer(buf.area, drawn), left_over, j - 1,
                         writes \o row)

\* Sparkline::render of a widget without a block, on an area inside the buffer.
render(spark, area, buf, build) ==
    LET spark_area == area
        max == IF spark.max # <<>> THEN spark.max[1]
               ELSE IF iter_max(spark.data) # <<>> THEN iter_max(spark.data)[1] ELSE 1
        max_index == Min(spark_area.width, Len(spark.data))
        bars == [i \in 1..max_index |-> scaled(spark.data[i], spark_area.height, max, build)]
        data == [i \in 1..max_index |-> bars[i].d]
    IN  IF spark_area.height < 1 THEN [result |-> "ok", buf |-> buf, writes |-> <<>>]
        ELSE IF \E i \in 1..max_index : ~bars[i].ok
        THEN [result |-> "panic", buf |-> buf, writes |-> <<>>]
        ELSE render_rows(spark, spark_area, buf, data, spark_area.height - 1, <<>>)

\* ------------------------------------------------- specification: Sparkline

\* The buffer of the tests: every cell holds an x.
SparkBuffer ==
    Buffer(Rect(0, 0, SparkMaxWidth, SparkMaxHeight),
           [i \in 1..(SparkMaxWidth * SparkMaxHeight) |-> Cell("x", 0, FALSE)])

\* The areas inside the buffer.
SparkAreas ==
    {Rect(x, y, w, h) : x \in 0..SparkMaxWidth, y \in 0..SparkMaxHeight,
                        w \in 0..SparkMaxWidth, h \in 0..SparkMaxHeight}

SparkValues == {0, 1, 9, U64Max}

SparkData == UNION {[1..n -> SparkValues] : n \in 0..SparkMaxData}

SparkInit ==
    /\ NoTerminal
    /\ fn = "Sparkline"
    /\ ret = NoRet
    /\ \E area \in {a \in SparkAreas : a.x + a.width <= SparkMaxWidth
                                        /\ a.y + a.height <= SparkMaxHeight} :
       \E data \in SparkData, max \in {<<>>, <<0>>, <<1>>, <<U64Max>>} :
       \E direction \in {"LeftToRight", "RightToLeft"}, style \in {0, 2} :
       \E build \in {"debug", "release"} :
        args = [spark |-> Sparkline(data, max, direction, style), area |-> area,
                buf |-> SparkBuffer, build |-> build]

SparkRender ==
    /\ fn = "Sparkline"
    /\ fn' = "render"
    /\ ret' = render(args.spark, args.area, args.buf, args.build)
    /\ UNCHANGED <<terminal_vars, args>>

SparkNext == SparkRender

SparkSpec == SparkInit /\ [][SparkNext]_vars

SparkDone == fn = "render"

\* The data columns of the render under study, as indices of the data.
SparkColumns == 0..(Min(args.area.width, Len(args.spark.data)) - 1)

\* The maximum the widget scales by is zero: set to zero, or that of data
\* that is all zeros.
SparkMaxIsZero ==
    \/ args.spark.max = <<0>>
    \/ /\ args.spark.max = <<>>
       /\ args.spark.data # <<>>
       /\ \A i \in 1..Len(args.spark.data) : args.spark.data[i] = 0

\* C29: rendering a Sparkline whose maximum is zero, whether set explicitly
\* with max(0) or derived from all-zero data, does not fail (no division by
\* zero): every data column is rendered with the empty bar symbol.
ZeroMaxRendersEmpty ==
    (SparkDone /\ SparkMaxIsZero) =>
        /\ ret.result = "ok"
        /\ \A i \in SparkColumns, y \in top(args.area)..(bottom(args.area) - 1) :
              LET x == IF args.spark.direction = "LeftToRight"
                       THEN args.area.x + i
                       ELSE args.area.x + args.area.width - 1 - i
              IN  /\ \E k \in 1..Len(ret.writes) :
                        ret.writes[k] = [i |-> i, x |-> x, y |-> y]
                  /\ ret.buf.content[index_of(ret.buf.area, x, y)].symbol
                        = args.spark.bar_set.empty

\* A maximum set to zero over data that is not: two columns on two rows, in a
\* build that checks its arithmetic.
ZeroMaxRendersEmptyWitness ==
    /\ SparkDone
    /\ args.spark.max = <<0>>
    /\ args.build = "debug"
    /\ args.area.height = 2
    /\ Cardinality(SparkColumns) >= 2
    /\ \E i \in 1..Len(args.spark.data) : args.spark.data[i] = U64Max
    /\ \E k \in 1..Len(ret.buf.content) : ret.buf.content[k].symbol = "empty"

\* C30: Sparkline render without a block writes exactly
\* min(area width, data length) columns: data item i goes to column left + i
\* for LeftToRight and to column right - 1 - i for RightToLeft, and every
\* other cell of the buffer is left unchanged.
SparkWritesDataColumns ==
    (SparkDone /\ ret.result = "ok") =>
        LET written == {Position(ret.writes[k].x, ret.writes[k].y) :
                            k \in 1..Len(ret.writes)}
            rows == top(args.area)..(bottom(args.area) - 1)
        IN  /\ \A k \in 1..Len(ret.writes) :
                  LET w == ret.writes[k] IN
                  /\ w.i \in SparkColumns
                  /\ w.y \in rows
                  /\ w.x = IF args.spark.direction = "LeftToRight"
                           THEN args.area.x + w.i
                           ELSE (args.area.x + args.area.width) - 1 - w.i
            /\ \A y \in rows :
                  /\ \A i \in SparkColumns :
                        \E k \in 1..Len(ret.writes) :
                            ret.writes[k].i = i /\ ret.writes[k].y = y
                  /\ Cardinality({p \in written : p.y = y})
                        = Min(args.area.width, Len(args.spark.data))
            /\ ret.buf.area = args.buf.area
            /\ \A k \in 1..Len(args.buf.content) :
                  IF pos_of(args.buf.area, k) \in written
                  THEN ret.buf.content[k].symbol # args.buf.content[k].symbol
                  ELSE ret.buf.content[k] = args.buf.content[k]

\* More data than columns, rendered right to left on two rows of an area
\* narrower than the buffer.
SparkWritesDataColumnsWitness ==
    /\ SparkDone
    /\ ret.result = "ok"
    /\ args.spark.direction = "RightToLeft"
    /\ args.area.width = 2
    /\ args.area.height = 2
    /\ Len(args.spark.data) > args.area.width
    /\ args.spark.data[1] # args.spark.data[2]
    /\ Len(ret.writes) = 4

\* ------------------------------------------------------------ ModifierDiff

\* The modifiers ModifierDiff::queue knows.
Modifiers ==
    {"REVERSED", "BOLD", "DIM", "ITALIC", "UNDERLINED", "CROSSED_OUT",
     "SLOW_BLINK", "RAPID_BLINK"}

SetAttribute(attribute) == Command("SetAttribute", 0, 0, 0, attribute)

\* The command queued when the condition holds.
queue_if(cond, attribute) == IF cond THEN <<SetAttribute(attribute)>> ELSE <<>>

\* ModifierDiff::queue: what it queues when no write fails.
modifier_diff(from, to) ==
    LET removed == from \ to
        added == to \ from
    IN  queue_if("REVERSED" \in removed, "NoReverse")
        \o queue_if("BOLD" \in removed, "NormalIntensity")
        \o queue_if("BOLD" \in removed /\ "DIM" \in to, "Dim")
        \o queue_if("ITALIC" \in removed, "NoItalic")
        \o queue_if("UNDERLINED" \in removed, "NoUnderline")
        \o queue_if("DIM" \in removed, "NormalIntensity")
        \o queue_if("CROSSED_OUT" \in removed, "NotCrossedOut")
        \o queue_if("SLOW_BLINK" \in removed \/ "RAPID_BLINK" \in removed, "NoBlink")
        \o queue_if("REVERSED" \in added, "Reverse")
        \o queue_if("BOLD" \in added, "Bold")
        \o queue_if("ITALIC" \in added, "Italic")
        \o queue_if("UNDERLINED" \in added, "Underlined")
        \o queue_if("DIM" \in added, "Dim")
        \o queue_if("CROSSED_OUT" \in added, "CrossedOut")
        \o queue_if("SLOW_BLINK" \in added, "SlowBlink")
        \o queue_if("RAPID_BLINK" \in added, "RapidBlink")

\* ModifierDiff::queue on a writer that fails the fail-th command (0: none).
modifier_diff_queue(from, to, fail) ==
    LET queued == modifier_diff(from, to)
    IN  IF fail \in 1..Len(queued)
        THEN [result |-> "io", out |-> SubSeq(queued, 1, fail - 1)]
        ELSE [result |-> "ok", out |-> queued]

\* The attributes active on the terminal after one attribute command:
\* NormalIntensity clears both bold and dim, NoBlink both kinds of blink.
apply_attribute(active, attribute) ==
    CASE attribute = "NoReverse" -> active \ {"REVERSED"}
      [] attribute = "NormalIntensity" -> active \ {"BOLD", "DIM"}
      [] attribute = "NoItalic" -> active \ {"ITALIC"}
      [] attribute = "NoUnderline" -> active \ {"UNDERLINED"}
      [] attribute = "NotCrossedOut" -> active \ {"CROSSED_OUT"}
      [] attribute = "NoBlink" -> active \ {"SLOW_BLINK", "RAPID_BLINK"}
      [] attribute = "Reverse" -> active \cup {"REVERSED"}
      [] attribute = "Bold" -> active \cup {"BOLD"}
      [] attribute = "Italic" -> active \cup {"ITALIC"}
      [] attribute = "Underlined" -> active \cup {"UNDERLINED"}
      [] attribute = "Dim" -> active \cup {"DIM"}
      [] attribute = "CrossedOut" -> active \cup {"CROSSED_OUT"}
      [] attribute = "SlowBlink" -> active \cup {"SLOW_BLINK"}
      [] attribute = "RapidBlink" -> active \cup {"RAPID_BLINK"}

RECURSIVE apply_attributes(_, _)
apply_attributes(active, out) ==
    IF out = <<>> THEN active
    ELSE apply_attributes(apply_attribute(active, Head(out).symbol), Tail(out))

\* ---------------------------------------------- specification: ModifierDiff

ModifierInit ==
    /\ NoTerminal
    /\ fn = "ModifierDiff"
    /\ ret = NoRet
    /\ \E from, to \in SUBSET Modifiers : args = [from |-> from, to |-> to]

ModifierQueue ==
    /\ fn = "ModifierDiff"
    /\ fn' = "queue"
    /\ \E fail \in 0..Len(modifier_diff(args.from, args.to)) :
        LET r == modifier_diff_queue(args.from, args.to, fail) IN
        ret' = [result |-> r.result, out |-> r.out,
                active |-> apply_attributes(args.from, r.out)]
    /\ UNCHANGED <<terminal_vars, args>>

ModifierNext == ModifierQueue

ModifierSpec == ModifierInit /\ [][ModifierNext]_vars

ModifierDone == fn = "queue"

\* C31: for every pair of modifier sets (from, to), applying the attribute
\* commands queued by ModifierDiff{from, to} to a terminal whose active
\* attributes are exactly from leaves the terminal's active attributes exactly
\* to, given that NormalIntensity clears both bold and dim and NoBlink clears
\* both slow and rapid blink.
ModifierDiffReachesTo ==
    (ModifierDone /\ ret.result = "ok") => ret.active = args.to

====
